---------------------------- MODULE Spec2Model ----------------------------
(***************************************************************************)
(* NewsHub article pipeline: scoring, deduplication, categorization and    *)
(* the orchestrator (lib/scoring, lib/categorization, lib/api.ts).         *)
(*                                                                         *)
(* Strings are sequences of one-character strings, so that lower-casing,   *)
(* stripping, splitting and substring tests are computed character by      *)
(* character as the JavaScript does.  Score totals are kept in tenths      *)
(* (755 stands for 75.5): every sub-score is a multiple of 5 and the       *)
(* weights are multiples of 0.05, so ten times the weighted sum is an      *)
(* integer and Math.round(total * 10) / 10 is that integer over ten.       *)
(***************************************************************************)
EXTENDS Integers, Sequences, FiniteSets, TLC

VARIABLES
    articles,        \* deduplication harness: the list handed to deduplicateArticles
    unique,          \* <<>> or <<result of deduplicateArticles(articles)>>
    uniqueAgain,     \* <<>> or <<result of deduplicateArticles(unique)>>
    uniqueShuffled,  \* <<>> or <<result of deduplicateArticles(a permutation of articles)>>
    groups,          \* the groups the call that produced `unique` merged
    shuffled,        \* <<>> or <<the permutation of articles that gave uniqueShuffled>>
    rawArticle,      \* scoring harness: the article handed to scoreArticle
    sourceConfig,    \* <<>> (undefined) or <<the SourceConfig handed to scoreArticle>>
    clock,           \* what new Date().getTime() returns, in milliseconds
    score,           \* <<>> or <<result of scoreArticle(rawArticle, sourceConfig)>>
    featured,        \* <<>> or <<result of shouldFeatureArticle(score)>>
    rawArticles,     \* pipeline: the batch handed to processArticles
    options,         \* pipeline: <<>> or <<the category of the fetch options>>
    output,          \* pipeline: <<>> or <<the array processArticles returned>>
    catArticles,     \* categorizer: the articles handed to batchCategorize
    catConfigs,      \* categorizer: <<>> or <<the Map of source name to SourceConfig>>
    catResults,      \* per article: <<>> or <<result of assignCategoryWithConfidence on it alone>>
    catBatch,        \* <<>> or <<result of batchCategorize(catArticles, catConfigs)>>
    sourceQuery,     \* source lookup: the identifier handed to findSourceConfig
    sourceFound,     \* <<>> or <<result of findSourceConfig(sourceQuery)>>
    advOptions,      \* advanced deduplication: <<>> or <<the options of the first call>>
    advOther,        \* <<>> or <<the options of the second call on the same articles>>
    advUnique,       \* <<>> or <<result of deduplicateArticlesAdvanced(articles, advOptions)>>
    advUniqueOther,  \* <<>> or <<result of deduplicateArticlesAdvanced(articles, advOther)>>
    advGroups,       \* the groups the call that produced advUnique merged
    currentUsage,    \* api-tracker: <<>> or <<the module's currentUsage>>
    today,           \* the day new Date().toDateString() names, as a day number
    callsToday,      \* trackAPIRequest calls made today since the last resetUsage
    reported,        \* <<>> or <<what the last tracker operation returned>>
    opsDone,         \* the number of tracker operations called so far
    env,             \* fetch layer: <<>> or <<process.env: NEWS_API_KEY, USE_MOCK_DATA>>
    calls,           \* the fetchArticles calls: where each stands and what it returned
    upstream,        \* the number of requests sent to the news provider
    invocations      \* the processArticles invocations running side by side

dedupVars == <<articles, unique, uniqueAgain, uniqueShuffled, groups, shuffled>>

scoreVars == <<rawArticle, sourceConfig, clock, score, featured>>

pipeVars == <<rawArticles, options, output>>

catVars == <<catArticles, catConfigs, catResults, catBatch>>

lookupVars == <<sourceQuery, sourceFound>>

advVars == <<advOptions, advOther, advUnique, advUniqueOther, advGroups>>

\* the parts outside the pipeline harnesses
trackerVars == <<currentUsage, today, callsToday, reported, opsDone>>

fetchVars == <<env, calls, upstream>>

parallelVars == <<invocations>>

moreVars == <<advVars, trackerVars, fetchVars, parallelVars>>

restVars == <<catVars, lookupVars, moreVars>>

vars == <<dedupVars, scoreVars, pipeVars, restVars>>

\* the parts of the state a harness does not use
IdleDedup ==
    /\ articles = <<>>
    /\ unique = <<>>
    /\ groups = <<>>
    /\ uniqueAgain = <<>>
    /\ uniqueShuffled = <<>>
    /\ shuffled = <<>>

IdleScore ==
    /\ rawArticle = <<>>
    /\ sourceConfig = <<>>
    /\ clock = 0
    /\ score = <<>>
    /\ featured = <<>>

IdlePipe ==
    /\ rawArticles = <<>>
    /\ options = <<>>
    /\ output = <<>>

IdleCat ==
    /\ catArticles = <<>>
    /\ catConfigs = <<>>
    /\ catResults = <<>>
    /\ catBatch = <<>>

IdleLookup ==
    /\ sourceQuery = <<>>
    /\ sourceFound = <<>>

IdleAdvanced ==
    /\ advOptions = <<>>
    /\ advOther = <<>>
    /\ advUnique = <<>>
    /\ advUniqueOther = <<>>
    /\ advGroups = <<>>

IdleTracker ==
    /\ currentUsage = <<>>
    /\ today = 0
    /\ callsToday = 0
    /\ reported = <<>>
    /\ opsDone = 0

IdleFetch ==
    /\ env = <<>>
    /\ calls = <<>>
    /\ upstream = 0

IdleParallel == invocations = <<>>

IdleMore == IdleAdvanced /\ IdleTracker /\ IdleFetch /\ IdleParallel

IdleRest == IdleCat /\ IdleLookup /\ IdleMore

-----------------------------------------------------------------------------
(* Characters and the String methods the code uses *)

LowerAlpha == <<"a","b","c","d","e","f","g","h","i","j","k","l","m",
                "n","o","p","q","r","s","t","u","v","w","x","y","z">>
UpperAlpha == <<"A","B","C","D","E","F","G","H","I","J","K","L","M",
                "N","O","P","Q","R","S","T","U","V","W","X","Y","Z">>
DigitChars == {"0","1","2","3","4","5","6","7","8","9"}
LowerChars == {LowerAlpha[i] : i \in 1..26}
UpperChars == {UpperAlpha[i] : i \in 1..26}
\* \s of the regular expressions: the model's titles use blank and tab
WhiteSpace == {" ", "\t"}

\* the characters of the model's strings
Punctuation == {"!", ".", ",", "'", "-", ":", "/", "[", "]", "|", "?", "_"}
Chars == LowerChars \cup UpperChars \cup DigitChars \cup WhiteSpace \cup Punctuation

LowerOf ==
    [c \in Chars |-> IF c \in UpperChars
                     THEN LowerAlpha[CHOOSE i \in 1..26 : UpperAlpha[i] = c]
                     ELSE c]

UpperOf ==
    [c \in Chars |-> IF c \in LowerChars
                     THEN UpperAlpha[CHOOSE i \in 1..26 : LowerAlpha[i] = c]
                     ELSE c]

toLowerChar(c) == LowerOf[c]

toUpperChar(c) == UpperOf[c]

toLowerCase(s) == [i \in 1..Len(s) |-> toLowerChar(s[i])] \o <<>>

toUpperCase(s) == [i \in 1..Len(s) |-> toUpperChar(s[i])] \o <<>>

\* String.prototype.includes
includes(s, sub) ==
    \E i \in 0..(Len(s) - Len(sub)) : \A k \in 1..Len(sub) : s[i + k] = sub[k]

\* String.prototype.startsWith
startsWith(s, prefix) ==
    Len(s) >= Len(prefix) /\ SubSeq(s, 1, Len(prefix)) = prefix

RECURSIVE trimStart(_)
trimStart(s) ==
    IF Len(s) > 0 /\ Head(s) \in WhiteSpace THEN trimStart(Tail(s)) ELSE s

RECURSIVE trimEnd(_)
trimEnd(s) ==
    IF Len(s) > 0 /\ s[Len(s)] \in WhiteSpace THEN trimEnd(SubSeq(s, 1, Len(s) - 1)) ELSE s

\* String.prototype.trim
trim(s) == trimEnd(trimStart(s))

RECURSIVE SplitFrom(_, _, _)
SplitFrom(s, i, cur) ==
    IF i > Len(s) THEN <<cur>>
    ELSE IF s[i] \in WhiteSpace
         THEN IF i > 1 /\ s[i-1] \in WhiteSpace
              THEN SplitFrom(s, i + 1, cur)
              ELSE <<cur>> \o SplitFrom(s, i + 1, <<>>)
         ELSE SplitFrom(s, i + 1, Append(cur, s[i]))

\* s.split(/\s+/): the pieces between maximal runs of white space ("" gives [""])
splitWs(s) == SplitFrom(s, 1, <<>>)

\* the last n elements instead of the first: slice(-n)
slice0FromEnd(seq, n) ==
    SubSeq(seq, (IF n < Len(seq) THEN Len(seq) - n ELSE 0) + 1, Len(seq))

\* Array.prototype.slice(0, n)
slice0(seq, n) == SubSeq(seq, 1, IF n < Len(seq) THEN n ELSE Len(seq))

RECURSIVE join(_, _)
join(words, sep) ==
    IF Len(words) = 0 THEN <<>>
    ELSE IF Len(words) = 1 THEN words[1]
    ELSE words[1] \o sep \o join(Tail(words), sep)

Range(seq) == {seq[i] : i \in 1..Len(seq)}

-----------------------------------------------------------------------------
(* lib/scoring/deduplication.ts *)

DefaultWordCount == 8

\* the characters the pattern [^a-z0-9\s] leaves in place
KeptChars == LowerChars \cup DigitChars \cup WhiteSpace

\* title.replace(/[^a-z0-9\s]/g, '')
stripPunctuation(s) == SelectSeq(s, LAMBDA c : c \in KeptChars)

\* normalizeTitle without the lower-casing
normalizeTitleCaseSensitive(title, wordCount) ==
    join(slice0(splitWs(trim(stripPunctuation(title))), wordCount), <<" ">>)

normalizeTitle(title, wordCount) ==
    join(slice0(splitWs(trim(stripPunctuation(toLowerCase(title)))), wordCount), <<" ">>)

\* Jaccard similarity of the word sets, as the fraction num/den
calculateTitleSimilarity(title1, title2) ==
    LET words1 == Range(splitWs(title1))
        words2 == Range(splitWs(title2))
        intersection == words1 \cap words2
        union == words1 \cup words2
    IN  IF Cardinality(union) = 0 THEN [num |-> 0, den |-> 1]
        ELSE [num |-> Cardinality(intersection), den |-> Cardinality(union)]

\* similarity >= 0.8
AtLeastEightTenths(similarity) == 10 * similarity.num >= 8 * similarity.den

\* areDuplicates with the overlap threshold at one half
areDuplicatesHalfOverlap(article1, article2) ==
    LET normalized1 == normalizeTitle(article1.title, DefaultWordCount)
        normalized2 == normalizeTitle(article2.title, DefaultWordCount)
        shorter == IF Len(normalized1) < Len(normalized2) THEN normalized1 ELSE normalized2
        longer  == IF Len(normalized1) < Len(normalized2) THEN normalized2 ELSE normalized1
        similarity == calculateTitleSimilarity(normalized1, normalized2)
    IN  \/ normalized1 = normalized2
        \/ 2 * similarity.num >= similarity.den
        \/ includes(longer, shorter) /\ Len(splitWs(shorter)) >= 5

areDuplicates(article1, article2) ==
    LET normalized1 == normalizeTitle(article1.title, DefaultWordCount)
        normalized2 == normalizeTitle(article2.title, DefaultWordCount)
        shorter == IF Len(normalized1) < Len(normalized2) THEN normalized1 ELSE normalized2
        longer  == IF Len(normalized1) < Len(normalized2) THEN normalized2 ELSE normalized1
    IN  \/ normalized1 = normalized2
        \/ AtLeastEightTenths(calculateTitleSimilarity(normalized1, normalized2))
        \/ includes(longer, shorter) /\ Len(splitWs(shorter)) >= 5

\* the comparator with its operands exchanged: lowest total first
compareByScoreAsc(a, b) == a.score.total - b.score.total

\* the comparator (a, b) => b.score.total - a.score.total
compareByScoreDesc(a, b) == b.score.total - a.score.total

RECURSIVE InsertSorted(_, _)
InsertSorted(sorted, a) ==
    IF Len(sorted) = 0 THEN <<a>>
    ELSE IF compareByScoreDesc(sorted[Len(sorted)], a) <= 0
         THEN Append(sorted, a)
         ELSE Append(InsertSorted(SubSeq(sorted, 1, Len(sorted) - 1), a), sorted[Len(sorted)])

RECURSIVE SortFrom(_, _, _)
SortFrom(seq, i, acc) ==
    IF i > Len(seq) THEN acc ELSE SortFrom(seq, i + 1, InsertSorted(acc, seq[i]))

\* a sort that puts an article in front of the articles of equal total
RECURSIVE InsertSortedInFront(_, _)
InsertSortedInFront(sorted, a) ==
    IF Len(sorted) = 0 THEN <<a>>
    ELSE IF compareByScoreDesc(sorted[Len(sorted)], a) < 0
         THEN Append(sorted, a)
         ELSE Append(InsertSortedInFront(SubSeq(sorted, 1, Len(sorted) - 1), a),
                     sorted[Len(sorted)])

RECURSIVE SortInFrontFrom(_, _, _)
SortInFrontFrom(seq, i, acc) ==
    IF i > Len(seq) THEN acc ELSE SortInFrontFrom(seq, i + 1, InsertSortedInFront(acc, seq[i]))

sortByScoreDescTiesReversed(seq) == SortInFrontFrom(seq, 1, <<>>)

\* the sort left out
sortByScoreDescMissing(seq) == seq

\* Array.prototype.sort with that comparator: a stable sort, highest total first
sortByScoreDesc(seq) == SortFrom(seq, 1, <<>>)

\* the inner loop leaving at the first duplicate it finds
RECURSIVE ScanCandidatesFirstMatch(_, _, _, _, _, _)
ScanCandidatesFirstMatch(sorted, i, j, processed, bestVersion, matched) ==
    IF j > Len(sorted)
    THEN [processed |-> processed, bestVersion |-> bestVersion, matched |-> matched]
    ELSE IF j \in processed
    THEN ScanCandidatesFirstMatch(sorted, i, j + 1, processed, bestVersion, matched)
    ELSE IF areDuplicates(sorted[i], sorted[j])
         THEN [processed |-> processed \cup {j},
               bestVersion |-> IF sorted[j].score.total > bestVersion.score.total
                               THEN sorted[j] ELSE bestVersion,
               matched |-> Append(matched, sorted[j])]
         ELSE ScanCandidatesFirstMatch(sorted, i, j + 1, processed, bestVersion, matched)

\* the inner loop keeping the candidate with the lower total
RECURSIVE ScanCandidatesKeepLower(_, _, _, _, _, _)
ScanCandidatesKeepLower(sorted, i, j, processed, bestVersion, matched) ==
    IF j > Len(sorted)
    THEN [processed |-> processed, bestVersion |-> bestVersion, matched |-> matched]
    ELSE IF j \in processed
    THEN ScanCandidatesKeepLower(sorted, i, j + 1, processed, bestVersion, matched)
    ELSE IF areDuplicates(sorted[i], sorted[j])
         THEN ScanCandidatesKeepLower(sorted, i, j + 1, processed \cup {j},
                                      IF sorted[j].score.total < bestVersion.score.total
                                      THEN sorted[j] ELSE bestVersion,
                                      Append(matched, sorted[j]))
         ELSE ScanCandidatesKeepLower(sorted, i, j + 1, processed, bestVersion, matched)

\* the inner loop over j for a given i.  `matched` lists the candidates marked
\* as duplicates of sorted[i]: it is not in the code, and records which
\* articles the loop merged into the group of sorted[i].
RECURSIVE ScanCandidates(_, _, _, _, _, _)
ScanCandidates(sorted, i, j, processed, bestVersion, matched) ==
    IF j > Len(sorted)
    THEN [processed |-> processed, bestVersion |-> bestVersion, matched |-> matched]
    ELSE IF j \in processed
    THEN ScanCandidates(sorted, i, j + 1, processed, bestVersion, matched)
    ELSE IF areDuplicates(sorted[i], sorted[j])
         THEN ScanCandidates(sorted, i, j + 1, processed \cup {j},
                             IF sorted[j].score.total > bestVersion.score.total
                             THEN sorted[j] ELSE bestVersion,
                             Append(matched, sorted[j]))
         ELSE ScanCandidates(sorted, i, j + 1, processed, bestVersion, matched)

\* the outer loop losing the marks its inner loop set: only i is processed
RECURSIVE DedupLoopMarksLost(_, _, _, _)
DedupLoopMarksLost(sorted, i, processed, uniq) ==
    IF i > Len(sorted) THEN uniq
    ELSE IF i \in processed THEN DedupLoopMarksLost(sorted, i + 1, processed, uniq)
    ELSE LET scan == ScanCandidates(sorted, i, i + 1, processed, sorted[i], <<>>)
         IN  DedupLoopMarksLost(sorted, i + 1, processed \cup {i},
                                Append(uniq, [bestVersion |-> scan.bestVersion,
                                              members |-> <<sorted[i]>> \o scan.matched]))

\* the outer loop over i: one entry per unique.push(bestVersion), with the
\* group it stands for
RECURSIVE DedupLoop(_, _, _, _)
DedupLoop(sorted, i, processed, uniq) ==
    IF i > Len(sorted) THEN uniq
    ELSE IF i \in processed THEN DedupLoop(sorted, i + 1, processed, uniq)
    ELSE LET scan == ScanCandidates(sorted, i, i + 1, processed, sorted[i], <<>>)
         IN  DedupLoop(sorted, i + 1, scan.processed \cup {i},
                       Append(uniq, [bestVersion |-> scan.bestVersion,
                                     members |-> <<sorted[i]>> \o scan.matched]))

\* the groups deduplicateArticles forms, in the order it pushes them
duplicateGroupsOf(arts) ==
    IF Len(arts) = 0 THEN <<>> ELSE DedupLoop(sortByScoreDesc(arts), 1, {}, <<>>)

deduplicateArticles(arts) ==
    LET pushed == duplicateGroupsOf(arts)
    IN  sortByScoreDesc([k \in 1..Len(pushed) |-> pushed[k].bestVersion])

-----------------------------------------------------------------------------
(* Deduplication harness: the calls of lib/scoring/__tests__/deduplication.test.ts *)

MaxBatch == 3

\* "Fed cuts key rate"
TitleFedCuts == <<"F","e","d"," ","c","u","t","s"," ","k","e","y"," ","r","a","t","e">>
\* "Fed cuts key rate now"
TitleFedCutsNow == <<"F","e","d"," ","c","u","t","s"," ","k","e","y"," ","r","a","t","e"," ","n","o","w">>
\* "cuts key rate now"
TitleCutsNow == <<"c","u","t","s"," ","k","e","y"," ","r","a","t","e"," ","n","o","w">>

\* The first and the last are each a duplicate of the middle one (Jaccard 4/5)
\* and no duplicates of each other (Jaccard 3/5): the relation is not transitive.
BatchTitleSeq == <<TitleFedCuts, TitleFedCutsNow, TitleCutsNow>>
BatchTitles == {BatchTitleSeq[i] : i \in 1..Len(BatchTitleSeq)}

\* totals 60.0, 75.0 and 90.0, in tenths
BatchTotalSeq == <<600, 750, 900>>
BatchTotals == {BatchTotalSeq[i] : i \in 1..Len(BatchTotalSeq)}

SourceTechCrunch == <<"T","e","c","h","C","r","u","n","c","h">>

DigitOf == <<"1","2","3","4","5","6","7","8","9">>

(* deduplicateArticlesAdvanced.  similarityThreshold is kept in hundredths *)
(* (80 stands for 0.8), and a score gap of 5 is 50 tenths.                 *)

DefaultSimilarityThreshold == 80

\* the destructuring of `options` with its defaults; an option that is not
\* given is <<>>, one that is given is <<value>>
withDefaults(given) ==
    [similarityThreshold |-> IF given.similarityThreshold = <<>>
                             THEN DefaultSimilarityThreshold
                             ELSE given.similarityThreshold[1],
     wordCount |-> IF given.wordCount = <<>> THEN DefaultWordCount
                   ELSE given.wordCount[1],
     preferredSources |-> IF given.preferredSources = <<>> THEN <<>>
                          ELSE given.preferredSources[1]]

\* the comparison turned round: similarity <= similarityThreshold
atLeastThresholdReversed(similarity, similarityThreshold) ==
    100 * similarity.num <= similarityThreshold * similarity.den

\* similarity >= similarityThreshold
atLeastThreshold(similarity, similarityThreshold) ==
    100 * similarity.num >= similarityThreshold * similarity.den

\* preferredSources.some(s => sourceName.includes(s.toLowerCase())), with
\* sourceName = article.source?.name?.toLowerCase() || ''
isPreferred(article, preferredSources) ==
    LET sourceName == toLowerCase(article.source.name)
    IN  \E k \in 1..Len(preferredSources) :
            includes(sourceName, toLowerCase(preferredSources[k]))

abs(n) == IF n < 0 THEN 0 - n ELSE n

\* the selection with a gap of exactly 5 counted as close
selectBestVersionInclusiveGap(candidate, bestVersion, preferredSources) ==
    LET scoreDiff == abs(candidate.score.total - bestVersion.score.total)
    IN  IF scoreDiff <= 50
        THEN IF isPreferred(candidate, preferredSources)
                /\ ~isPreferred(bestVersion, preferredSources)
             THEN candidate ELSE bestVersion
        ELSE IF candidate.score.total > bestVersion.score.total
             THEN candidate ELSE bestVersion

\* the selection logic with source preference: the new bestVersion
selectBestVersion(candidate, bestVersion, preferredSources) ==
    LET scoreDiff == abs(candidate.score.total - bestVersion.score.total)
    IN  IF scoreDiff < 50
        THEN IF isPreferred(candidate, preferredSources)
                /\ ~isPreferred(bestVersion, preferredSources)
             THEN candidate ELSE bestVersion
        ELSE IF candidate.score.total > bestVersion.score.total
             THEN candidate ELSE bestVersion

\* similarity >= similarityThreshold || normalized1 === normalized2
similarTitles(title1, title2, opts) ==
    LET normalized1 == normalizeTitle(title1, opts.wordCount)
        normalized2 == normalizeTitle(title2, opts.wordCount)
        similarity == calculateTitleSimilarity(normalized1, normalized2)
    IN  \/ atLeastThreshold(similarity, opts.similarityThreshold)
        \/ normalized1 = normalized2

\* the inner loop over j of deduplicateArticlesAdvanced; `matched` as in
\* ScanCandidates
RECURSIVE ScanCandidatesAdvanced(_, _, _, _, _, _, _)
ScanCandidatesAdvanced(sorted, i, j, processed, bestVersion, matched, opts) ==
    IF j > Len(sorted)
    THEN [processed |-> processed, bestVersion |-> bestVersion, matched |-> matched]
    ELSE IF j \in processed
    THEN ScanCandidatesAdvanced(sorted, i, j + 1, processed, bestVersion, matched, opts)
    ELSE IF similarTitles(sorted[i].title, sorted[j].title, opts)
         THEN ScanCandidatesAdvanced(sorted, i, j + 1, processed \cup {j},
                  selectBestVersion(sorted[j], bestVersion, opts.preferredSources),
                  Append(matched, sorted[j]), opts)
         ELSE ScanCandidatesAdvanced(sorted, i, j + 1, processed, bestVersion, matched, opts)

RECURSIVE DedupLoopAdvanced(_, _, _, _, _)
DedupLoopAdvanced(sorted, i, processed, uniq, opts) ==
    IF i > Len(sorted) THEN uniq
    ELSE IF i \in processed THEN DedupLoopAdvanced(sorted, i + 1, processed, uniq, opts)
    ELSE LET scan == ScanCandidatesAdvanced(sorted, i, i + 1, processed, sorted[i], <<>>, opts)
         IN  DedupLoopAdvanced(sorted, i + 1, scan.processed \cup {i},
                               Append(uniq, [bestVersion |-> scan.bestVersion,
                                             members |-> <<sorted[i]>> \o scan.matched]),
                               opts)

\* the groups deduplicateArticlesAdvanced forms, in the order it pushes them
duplicateGroupsAdvanced(arts, given) ==
    IF Len(arts) = 0 THEN <<>>
    ELSE DedupLoopAdvanced(sortByScoreDesc(arts), 1, {}, <<>>, withDefaults(given))

deduplicateArticlesAdvanced(arts, given) ==
    LET pushed == duplicateGroupsAdvanced(arts, given)
    IN  sortByScoreDesc([k \in 1..Len(pushed) |-> pushed[k].bestVersion])

-----------------------------------------------------------------------------

\* createMockScore / createMockArticle of the tests; the articles of a batch
\* have their own urls ("/1", "/2", ...)
createMockScore(total) ==
    [total |-> total,
     breakdown |-> [sourceAuthority |-> 80, recency |-> 90, imageQuality |-> 40,
                    titleQuality |-> 40, descriptionQuality |-> 30]]

createMockArticle(title, total, source, url) ==
    [title |-> title, url |-> url, source |-> [name |-> source],
     score |-> createMockScore(total)]

\* the list of mock articles with the given <<title, total>> pairs
MockBatch(pairs) ==
    [i \in 1..Len(pairs) |->
        createMockArticle(pairs[i][1], pairs[i][2], SourceTechCrunch, <<"/", DigitOf[i]>>)]

\* every list of at most n mock articles with titles of T and totals of S
MockBatches(T, S, n) ==
    UNION {{MockBatch(f) : f \in [1..k -> T \X S]} : k \in 0..n}

Orderings(n) == {p \in [1..n -> 1..n] : \A i, j \in 1..n : p[i] = p[j] => i = j}

Permuted(seq, p) == [i \in 1..Len(seq) |-> seq[p[i]]]

InitDedup ==
    /\ articles \in MockBatches(BatchTitles, BatchTotals, MaxBatch)
    /\ unique = <<>>
    /\ groups = <<>>
    /\ uniqueAgain = <<>>
    /\ uniqueShuffled = <<>>
    /\ shuffled = <<>>
    /\ IdleScore
    /\ IdlePipe
    /\ IdleRest

\* result = deduplicateArticles(articles)
Deduplicate ==
    /\ unique = <<>>
    /\ unique' = <<deduplicateArticles(articles)>>
    /\ groups' = duplicateGroupsOf(articles)
    /\ UNCHANGED <<articles, uniqueAgain, uniqueShuffled, shuffled>>
    /\ UNCHANGED <<scoreVars, pipeVars, restVars>>

\* deduplicateArticles(result)
DeduplicateAgain ==
    /\ unique # <<>>
    /\ uniqueAgain = <<>>
    /\ uniqueAgain' = <<deduplicateArticles(unique[1])>>
    /\ UNCHANGED <<articles, unique, groups, uniqueShuffled, shuffled>>
    /\ UNCHANGED <<scoreVars, pipeVars, restVars>>

NextDedup == Deduplicate \/ DeduplicateAgain

SpecDedup == InitDedup /\ [][NextDedup]_vars

-----------------------------------------------------------------------------
(* The same call on the articles in every order.  A batch and its          *)
(* permutations give the same set of calls, so the batches start in one    *)
(* order of the <<title, total>> choices and the call permutes them.       *)

MaxShuffled == 3

\* the n-th <<title, total>> choice
BatchChoice(n) ==
    <<BatchTitleSeq[((n - 1) \div Len(BatchTotalSeq)) + 1],
      BatchTotalSeq[((n - 1) % Len(BatchTotalSeq)) + 1]>>

OrderedBatches(n) ==
    UNION {{MockBatch([i \in 1..k |-> BatchChoice(f[i])]) :
            f \in {g \in [1..k -> 1..(Len(BatchTitleSeq) * Len(BatchTotalSeq))] :
                      \A i \in 1..(k - 1) : g[i] <= g[i + 1]}} : k \in 0..n}

InitShuffle ==
    /\ articles \in OrderedBatches(MaxShuffled)
    /\ unique = <<>>
    /\ groups = <<>>
    /\ uniqueAgain = <<>>
    /\ uniqueShuffled = <<>>
    /\ shuffled = <<>>
    /\ IdleScore
    /\ IdlePipe
    /\ IdleRest

\* deduplicateArticles on the same articles in another order
DeduplicateShuffled ==
    /\ unique # <<>>
    /\ uniqueShuffled = <<>>
    /\ \E p \in Orderings(Len(articles)) :
           /\ shuffled' = <<Permuted(articles, p)>>
           /\ uniqueShuffled' = <<deduplicateArticles(Permuted(articles, p))>>
    /\ UNCHANGED <<articles, unique, groups, uniqueAgain>>
    /\ UNCHANGED <<scoreVars, pipeVars, restVars>>

NextShuffle == Deduplicate \/ DeduplicateShuffled

SpecShuffle == InitShuffle /\ [][NextShuffle]_vars

-----------------------------------------------------------------------------
(* Two articles at a time: which pairs of titles deduplicateArticles merges *)

\* "Apple announces new iPhone 15"
TitlePlain == <<"A","p","p","l","e"," ","a","n","n","o","u","n","c","e","s"," ","n","e","w"," ","i","P","h","o","n","e"," ","1","5">>
\* "Apple announces new iPhone 15!"
TitleBang == <<"A","p","p","l","e"," ","a","n","n","o","u","n","c","e","s"," ","n","e","w"," ","i","P","h","o","n","e"," ","1","5","!">>
\* "APPLE ANNOUNCES NEW IPHONE 15"
TitleUpper == <<"A","P","P","L","E"," ","A","N","N","O","U","N","C","E","S"," ","N","E","W"," ","I","P","H","O","N","E"," ","1","5">>
\* "Apple  announces - new\tiPhone 15." (two blanks, a dash of its own, a tab)
TitleSpaced == <<"A","p","p","l","e"," "," ","a","n","n","o","u","n","c","e","s"," ","-"," ","n","e","w","\t","i","P","h","o","n","e"," ","1","5",".">>
\* "Apple announces iPhone 16"
TitleOther == <<"A","p","p","l","e"," ","a","n","n","o","u","n","c","e","s"," ","i","P","h","o","n","e"," ","1","6">>
\* "new iPhone 15"
TitleShort == <<"n","e","w"," ","i","P","h","o","n","e"," ","1","5">>
\* "Apple announces new iPhone 15 with improved camera and battery"
TitleBattery == <<"A","p","p","l","e"," ","a","n","n","o","u","n","c","e","s"," ","n","e","w"," ","i","P","h","o","n","e"," ","1","5"," ","w","i","t","h"," ","i","m","p","r","o","v","e","d"," ","c","a","m","e","r","a"," ","a","n","d"," ","b","a","t","t","e","r","y">>
\* "Apple announces new iPhone 15 with improved camera system"
TitleSystem == <<"A","p","p","l","e"," ","a","n","n","o","u","n","c","e","s"," ","n","e","w"," ","i","P","h","o","n","e"," ","1","5"," ","w","i","t","h"," ","i","m","p","r","o","v","e","d"," ","c","a","m","e","r","a"," ","s","y","s","t","e","m">>
\* "Apple announces new iPhone 15 with improved screen"
TitleScreen == <<"A","p","p","l","e"," ","a","n","n","o","u","n","c","e","s"," ","n","e","w"," ","i","P","h","o","n","e"," ","1","5"," ","w","i","t","h"," ","i","m","p","r","o","v","e","d"," ","s","c","r","e","e","n">>
\* "nnounces new iPhone 15 with"
TitleClipped == <<"n","n","o","u","n","c","e","s"," ","n","e","w"," ","i","P","h","o","n","e"," ","1","5"," ","w","i","t","h">>
\* "?!"
TitleMarks == <<"?","!">>

PairTitles ==
    {TitlePlain, TitleBang, TitleUpper, TitleSpaced, TitleOther, TitleShort,
     TitleBattery, TitleSystem, TitleScreen, TitleClipped, TitleMarks, <<>>,
     TitleFedCutsNow, TitleCutsNow}

PairTotals == {750, 900}

InitPair ==
    /\ articles \in {MockBatch(<<<<t1, s1>>, <<t2, s2>>>>) :
                        t1 \in PairTitles, t2 \in PairTitles,
                        s1 \in PairTotals, s2 \in PairTotals}
    /\ unique = <<>>
    /\ groups = <<>>
    /\ uniqueAgain = <<>>
    /\ uniqueShuffled = <<>>
    /\ shuffled = <<>>
    /\ IdleScore
    /\ IdlePipe
    /\ IdleRest

SpecPair == InitPair /\ [][NextDedup]_vars

-----------------------------------------------------------------------------
(* Advanced harness: deduplicateArticlesAdvanced and deduplicateArticles on  *)
(* the same batch, the advanced one under two sets of options               *)

MaxAdvanced == 5

\* 'Fed cuts rates again today'
TitleFedRates == <<"F","e","d"," ","c","u","t","s"," ","r","a","t","e","s"," ","a","g","a","i","n"," ","t","o","d","a","y">>
\* 'Fed cuts'
TitleFed == <<"F","e","d"," ","c","u","t","s">>
\* 'Fed cuts jobs data'
TitleFedJobs == <<"F","e","d"," ","c","u","t","s"," ","j","o","b","s"," ","d","a","t","a">>
\* 'Fed cuts bond buys'
TitleFedBonds == <<"F","e","d"," ","c","u","t","s"," ","b","o","n","d"," ","b","u","y","s">>
\* 'Fed cuts rates again today in shock'
TitleFedShock == <<"F","e","d"," ","c","u","t","s"," ","r","a","t","e","s"," ","a","g","a","i","n"," ","t","o","d","a","y"," ","i","n"," ","s","h","o","c","k">>
\* 'Why Fed cuts rates again today'
TitleWhyFed == <<"W","h","y"," ","F","e","d"," ","c","u","t","s"," ","r","a","t","e","s"," ","a","g","a","i","n"," ","t","o","d","a","y">>

SourceGeneric == <<"G","e","n","e","r","i","c"," ","N","e","w","s">>
SourceReuters == <<"R","e","u","t","e","r","s">>
SourceAPNews == <<"A","P"," ","N","e","w","s">>

\* the articles the batches are drawn from: totals 60.0 to 90.0, in no order
AdvancedPool ==
    <<createMockArticle(TitleFedBonds, 600, SourceReuters, <<"/", "1">>),
      createMockArticle(TitleFed, 750, SourceAPNews, <<"/", "2">>),
      createMockArticle(TitleFedRates, 900, SourceReuters, <<"/", "3">>),
      createMockArticle(TitleFed, 800, SourceGeneric, <<"/", "4">>),
      createMockArticle(TitleFedShock, 650, SourceGeneric, <<"/", "5">>),
      createMockArticle(TitleFed, 760, SourceReuters, <<"/", "6">>),
      createMockArticle(TitleFedJobs, 700, SourceGeneric, <<"/", "7">>),
      createMockArticle(TitleWhyFed, 850, SourceGeneric, <<"/", "8">>)>>

\* the articles of the pool at the positions of S, in the order of the pool
PoolBatch(S) ==
    LET positions == SelectSeq([i \in 1..Len(AdvancedPool) |-> i], LAMBDA i : i \in S)
    IN  [k \in 1..Len(positions) |-> AdvancedPool[positions[k]]]

\* every batch of at most n articles of the pool
AdvancedBatches(n) ==
    {PoolBatch(S) : S \in {T \in SUBSET (1..Len(AdvancedPool)) : Cardinality(T) <= n}}

\* an options object: <<>> for a property that is not given
optionsOf(similarityThreshold, wordCount, preferredSources) ==
    [similarityThreshold |-> similarityThreshold, wordCount |-> wordCount,
     preferredSources |-> preferredSources]

\* ['Reuters', 'AP News']
PreferredSources == <<SourceReuters, SourceAPNews>>

\* the options of the two calls
AdvancedOptionPairs ==
    {<<optionsOf(<<>>, <<>>, <<>>), optionsOf(<<>>, <<>>, <<>>)>>,
     <<optionsOf(<<40>>, <<>>, <<>>), optionsOf(<<50>>, <<>>, <<>>)>>,
     <<optionsOf(<<50>>, <<>>, <<>>), optionsOf(<<90>>, <<>>, <<>>)>>,
     <<optionsOf(<<>>, <<1>>, <<>>), optionsOf(<<>>, <<8>>, <<>>)>>,
     <<optionsOf(<<>>, <<4>>, <<>>), optionsOf(<<>>, <<>>, <<>>)>>,
     <<optionsOf(<<50>>, <<1>>, <<>>), optionsOf(<<50>>, <<8>>, <<>>)>>,
     <<optionsOf(<<>>, <<>>, <<PreferredSources>>), optionsOf(<<>>, <<>>, <<>>)>>}

InitAdvanced ==
    /\ articles \in AdvancedBatches(MaxAdvanced)
    /\ \E pair \in AdvancedOptionPairs :
           /\ advOptions = <<pair[1]>>
           /\ advOther = <<pair[2]>>
    /\ advUnique = <<>>
    /\ advUniqueOther = <<>>
    /\ advGroups = <<>>
    /\ unique = <<>>
    /\ groups = <<>>
    /\ uniqueAgain = <<>>
    /\ uniqueShuffled = <<>>
    /\ shuffled = <<>>
    /\ IdleScore
    /\ IdlePipe
    /\ IdleCat
    /\ IdleLookup
    /\ IdleTracker
    /\ IdleFetch
    /\ IdleParallel

\* deduplicateArticlesAdvanced(articles, advOptions)
DeduplicateAdvanced ==
    /\ advOptions # <<>>
    /\ advUnique = <<>>
    /\ advUnique' = <<deduplicateArticlesAdvanced(articles, advOptions[1])>>
    /\ advGroups' = duplicateGroupsAdvanced(articles, advOptions[1])
    /\ UNCHANGED <<advOptions, advOther, advUniqueOther>>
    /\ UNCHANGED <<dedupVars, scoreVars, pipeVars, catVars, lookupVars>>
    /\ UNCHANGED <<trackerVars, fetchVars, parallelVars>>

\* deduplicateArticlesAdvanced(articles, advOther)
DeduplicateAdvancedOther ==
    /\ advOther # <<>>
    /\ advUniqueOther = <<>>
    /\ advUniqueOther' = <<deduplicateArticlesAdvanced(articles, advOther[1])>>
    /\ UNCHANGED <<advOptions, advOther, advUnique, advGroups>>
    /\ UNCHANGED <<dedupVars, scoreVars, pipeVars, catVars, lookupVars>>
    /\ UNCHANGED <<trackerVars, fetchVars, parallelVars>>

NextAdvanced == Deduplicate \/ DeduplicateAdvanced \/ DeduplicateAdvancedOther

SpecAdvanced == InitAdvanced /\ [][NextAdvanced]_vars

-----------------------------------------------------------------------------
(* Article scorer (scoreArticle and its five factors).  An optional string *)
(* that is undefined, null or "" is the empty sequence: the code's !x tests *)
(* do not tell them apart.  Time is counted in milliseconds from            *)
(* 2024-01-01T00:00:00.000Z, and the dates of the model lie in the first    *)
(* 24 days of that month, so that every time fits a 32-bit integer.         *)

\* 1000 * 60 * 60
HourMs == 3600000

\* the weights of the total, in hundredths
WeightSourceAuthority == 30
WeightRecency == 25
WeightImageQuality == 15
WeightTitleQuality == 20
WeightDescriptionQuality == 10

Min(a, b) == IF a < b THEN a ELSE b

Max(a, b) == IF a > b THEN a ELSE b

\* Array.prototype.some over a list of patterns, with String.prototype.includes
someIncluded(patterns, s) == \E k \in 1..Len(patterns) : includes(s, patterns[k])

calculateSourceAuthority(config) ==
    IF config = <<>> THEN 40 ELSE config[1].authorityScore

DigitSeq == <<"0","1","2","3","4","5","6","7","8","9">>

digitValue(c) == (CHOOSE n \in 1..10 : DigitSeq[n] = c) - 1

\* the number written by the digits of s from position i to position j
RECURSIVE digitsValue(_, _, _)
digitsValue(s, i, j) ==
    IF j < i THEN 0 ELSE 10 * digitsValue(s, i, j - 1) + digitValue(s[j])

\* new Date(text).getTime() of a date-time string YYYY-MM-DDTHH:mm:ss.sssZ:
\* <<t>> when the string is one, <<>> when it is not and getTime() is NaN
dateGetTime(text) ==
    IF /\ Len(text) = 24
       /\ SubSeq(text, 1, 8) = <<"2","0","2","4","-","0","1","-">>
       /\ \A i \in {9, 10, 12, 13, 15, 16, 18, 19, 21, 22, 23} : text[i] \in DigitChars
       /\ text[11] = "T" /\ text[14] = ":" /\ text[17] = ":"
       /\ text[20] = "." /\ text[24] = "Z"
       /\ digitsValue(text, 9, 10) \in 1..24
       /\ digitsValue(text, 12, 13) <= 23
       /\ digitsValue(text, 15, 16) <= 59
       /\ digitsValue(text, 18, 19) <= 59
    THEN <<((digitsValue(text, 9, 10) - 1) * 24 + digitsValue(text, 12, 13)) * HourMs
           + digitsValue(text, 15, 16) * 60000
           + digitsValue(text, 18, 19) * 1000
           + digitsValue(text, 21, 23)>>
    ELSE <<>>

\* hoursAgo < hours, which is false when hoursAgo is NaN
hoursAgoBelow(publishedAt, now, hours) ==
    LET published == dateGetTime(publishedAt)
    IN  published # <<>> /\ now - published[1] < hours * HourMs

\* hoursAgo >= hours, which is false when hoursAgo is NaN
hoursAgoAtLeast(publishedAt, now, hours) ==
    LET published == dateGetTime(publishedAt)
    IN  published # <<>> /\ now - published[1] >= hours * HourMs

\* the thresholds tested from the oldest to the newest
calculateRecencyScoreOldestFirst(publishedAt, now) ==
    IF hoursAgoAtLeast(publishedAt, now, 336) THEN 10
    ELSE IF hoursAgoAtLeast(publishedAt, now, 168) THEN 30
    ELSE IF hoursAgoAtLeast(publishedAt, now, 72) THEN 50
    ELSE IF hoursAgoAtLeast(publishedAt, now, 24) THEN 70
    ELSE IF hoursAgoAtLeast(publishedAt, now, 6) THEN 90
    ELSE 100

calculateRecencyScore(publishedAt, now) ==
    IF hoursAgoBelow(publishedAt, now, 6) THEN 100
    ELSE IF hoursAgoBelow(publishedAt, now, 24) THEN 90
    ELSE IF hoursAgoBelow(publishedAt, now, 72) THEN 70
    ELSE IF hoursAgoBelow(publishedAt, now, 168) THEN 50
    ELSE IF hoursAgoBelow(publishedAt, now, 336) THEN 30
    ELSE 10

goodImageDomains ==
    <<<<"c","l","o","u","d","i","n","a","r","y",".","c","o","m">>,
      <<"a","m","a","z","o","n","a","w","s",".","c","o","m">>,
      <<"c","d","n">>,
      <<"i","m","g">>,
      <<"i","m","a","g","e","s">>>>

calculateImageQuality(urlToImage) ==
    IF urlToImage = <<>> THEN 0
    ELSE LET base == IF startsWith(urlToImage, <<"h","t","t","p","s",":","/","/">>) THEN 40
                     ELSE IF startsWith(urlToImage, <<"h","t","t","p",":","/","/">>) THEN 30
                     ELSE -1
         IN  IF base < 0 THEN 0
             ELSE Min(base + (IF someIncluded(goodImageDomains, urlToImage) THEN 10 ELSE 0), 50)

interestingKeywords ==
    <<<<"a","n","n","o","u","n","c","e","s">>,
      <<"l","a","u","n","c","h","e","s">>,
      <<"u","n","v","e","i","l","s">>,
      <<"r","e","v","e","a","l","s">>,
      <<"b","r","e","a","k","t","h","r","o","u","g","h">>,
      <<"d","i","s","c","o","v","e","r","y">>,
      <<"f","i","r","s","t">>,
      <<"n","e","w">>,
      <<"m","a","j","o","r">>,
      <<"h","i","s","t","o","r","i","c">>,
      <<"u","n","p","r","e","c","e","d","e","n","t","e","d">>,
      <<"b","r","e","a","k","i","n","g">>>>

clickbaitPatterns ==
    <<<<"w","o","n","'","t"," ","b","e","l","i","e","v","e">>,
      <<"w","i","l","l"," ","s","h","o","c","k"," ","y","o","u">>,
      <<"s","h","o","c","k","i","n","g">>,
      <<"y","o","u"," ","n","e","e","d"," ","t","o">>,
      <<"t","h","i","s"," ","i","s"," ","w","h","y">>,
      <<"t","h","e"," ","r","e","a","s","o","n"," ","w","h","y">>,
      <<"w","h","a","t"," ","h","a","p","p","e","n","s"," ","n","e","x","t">>,
      <<"n","u","m","b","e","r">>,
      <<"a","m","a","z","i","n","g">>,
      <<"i","n","c","r","e","d","i","b","l","e">>,
      <<"m","i","n","d","-","b","l","o","w","i","n","g">>,
      <<"j","a","w","-","d","r","o","p","p","i","n","g">>>>

\* the ideal length taken without its two ends, 50 and 100
calculateTitleQualityOpenRange(title) ==
    IF title = <<>> THEN 0
    ELSE LET length == Len(title)
             lengthScore == IF length > 50 /\ length < 100 THEN 20
                            ELSE IF length >= 30 /\ length < 50 THEN 15
                            ELSE IF length > 100 /\ length <= 150 THEN 10
                            ELSE IF length < 30 THEN 5
                            ELSE 0
             titleLower == toLowerCase(title)
             keywordScore == IF someIncluded(interestingKeywords, titleLower) THEN 10 ELSE 0
             clickbaitScore == IF someIncluded(clickbaitPatterns, titleLower) THEN -20 ELSE 0
             capsScore == IF title = toUpperCase(title) /\ Len(title) > 10 THEN -10 ELSE 0
         IN  Max(0, Min(20 + lengthScore + keywordScore + clickbaitScore + capsScore, 50))

calculateTitleQuality(title) ==
    IF title = <<>> THEN 0
    ELSE LET length == Len(title)
             lengthScore == IF length >= 50 /\ length <= 100 THEN 20
                            ELSE IF length >= 30 /\ length < 50 THEN 15
                            ELSE IF length > 100 /\ length <= 150 THEN 10
                            ELSE IF length < 30 THEN 5
                            ELSE 0
             titleLower == toLowerCase(title)
             keywordScore == IF someIncluded(interestingKeywords, titleLower) THEN 10 ELSE 0
             clickbaitScore == IF someIncluded(clickbaitPatterns, titleLower) THEN -20 ELSE 0
             capsScore == IF title = toUpperCase(title) /\ Len(title) > 10 THEN -10 ELSE 0
         IN  Max(0, Min(20 + lengthScore + keywordScore + clickbaitScore + capsScore, 50))

calculateDescriptionQuality(description) ==
    IF description = <<>> THEN 0
    ELSE LET length == Len(description)
         IN  IF length >= 100 /\ length <= 300 THEN 30
             ELSE IF length >= 50 /\ length < 100 THEN 20
             ELSE IF length >= 20 /\ length < 50 THEN 10
             ELSE IF length > 300 THEN 20
             ELSE 0

\* Math.round(total * 10) of a non-negative total given in hundredths
roundToTenths(hundredths) == (hundredths + 5) \div 10

breakdownOf(article, config, now) ==
    [sourceAuthority |-> calculateSourceAuthority(config),
     recency |-> calculateRecencyScore(article.publishedAt, now),
     imageQuality |-> calculateImageQuality(article.urlToImage),
     titleQuality |-> calculateTitleQuality(article.title),
     descriptionQuality |-> calculateDescriptionQuality(article.description)]

\* the five factors added without their weights
scoreArticleUnweighted(article, config, now) ==
    LET b == breakdownOf(article, config, now)
    IN  [total |-> 10 * (b.sourceAuthority + b.recency + b.imageQuality
                         + b.titleQuality + b.descriptionQuality),
         breakdown |-> b]

\* the weights of recency and title quality exchanged
scoreArticleSwappedWeights(article, config, now) ==
    LET b == breakdownOf(article, config, now)
    IN  [total |-> roundToTenths(b.sourceAuthority * WeightSourceAuthority
                                 + b.recency * WeightTitleQuality
                                 + b.imageQuality * WeightImageQuality
                                 + b.titleQuality * WeightRecency
                                 + b.descriptionQuality * WeightDescriptionQuality),
         breakdown |-> b]

\* the total is in tenths
scoreArticle(article, config, now) ==
    LET b == breakdownOf(article, config, now)
    IN  [total |-> roundToTenths(b.sourceAuthority * WeightSourceAuthority
                                 + b.recency * WeightRecency
                                 + b.imageQuality * WeightImageQuality
                                 + b.titleQuality * WeightTitleQuality
                                 + b.descriptionQuality * WeightDescriptionQuality),
         breakdown |-> b]

\* score.total >= 80
shouldFeatureArticle(s) == s.total >= 800

\* the trending badge given from a total of 70 on
isTrendingArticleLowBar(s) == s.total >= 700 /\ s.breakdown.recency >= 70

\* score.total >= 75 && score.breakdown.recency >= 70
isTrendingArticle(s) == s.total >= 750 /\ s.breakdown.recency >= 70

\* the tier of a score given in tenths
getScoreTier(total) ==
    IF total >= 800 THEN "premium"
    ELSE IF total >= 650 THEN "good"
    ELSE IF total >= 500 THEN "standard"
    ELSE "low"

-----------------------------------------------------------------------------
(* Scoring harness: the calls of lib/scoring/__tests__/article-scorer.test.ts *)

\* the clock when the article is scored: "2024-01-20T12:00:00.000Z"
ClockText == <<"2","0","2","4","-","0","1","-","2","0","T","1","2",":","0","0",":","0","0",".","0","0","0","Z">>

mockTier1Source ==
    [domain |-> <<"t","e","c","h","c","r","u","n","c","h",".","c","o","m">>, tier |-> 1, authorityScore |-> 100,
     categories |-> <<<<"T","e","c","h","n","o","l","o","g","y">>>>, name |-> SourceTechCrunch]

mockTier2Source ==
    [domain |-> <<"c","n","e","t",".","c","o","m">>, tier |-> 2, authorityScore |-> 80,
     categories |-> <<<<"T","e","c","h","n","o","l","o","g","y">>>>, name |-> <<"C","N","E","T">>]

mockTier3Source ==
    [domain |-> <<"u","s","a","t","o","d","a","y",".","c","o","m">>, tier |-> 3, authorityScore |-> 60,
     categories |-> <<<<"G","e","n","e","r","a","l">>>>, name |-> <<"U","S","A"," ","T","o","d","a","y">>]

\* no profile, or one of each tier
SourceConfigs == {<<>>, <<mockTier1Source>>, <<mockTier2Source>>, <<mockTier3Source>>}

\* "Test Article Title Here"
TitleTest == <<"T","e","s","t"," ","A","r","t","i","c","l","e"," ","T","i","t","l","e"," ","H","e","r","e">>
\* "Fed cuts key rate after weak jobs report"
TitleAcceptable == <<"F","e","d"," ","c","u","t","s"," ","k","e","y"," ","r","a","t","e"," ","a","f","t","e","r"," ","w","e","a","k"," ","j","o","b","s"," ","r","e","p","o","r","t">>
\* "Scientists report a breakthrough in solid state batteries for all cars" (70 characters)
TitleBreakthrough == <<"S","c","i","e","n","t","i","s","t","s"," ","r","e","p","o","r","t"," ","a"," ","b","r","e","a","k","t","h","r","o","u","g","h"," ","i","n"," ","s","o","l","i","d"," ","s","t","a","t","e"," ","b","a","t","t","e","r","i","e","s"," ","f","o","r"," ","a","l","l"," ","c","a","r","s">>
\* 141 and 212 characters
TitleLong == TitleBreakthrough \o <<" ">> \o TitleBreakthrough
TitleTooLong == TitleLong \o <<" ">> \o TitleBreakthrough
\* "You won't believe this shocking number"
TitleClickbait == <<"Y","o","u"," ","w","o","n","'","t"," ","b","e","l","i","e","v","e"," ","t","h","i","s"," ","s","h","o","c","k","i","n","g"," ","n","u","m","b","e","r">>
\* "BREAKING NEWS TODAY"
TitleCaps == <<"B","R","E","A","K","I","N","G"," ","N","E","W","S"," ","T","O","D","A","Y">>
\* "SHOCKING NUMBER"
TitleCapsClickbait == <<"S","H","O","C","K","I","N","G"," ","N","U","M","B","E","R">>

ScoreTitles ==
    {<<>>, TitleTest, TitlePlain, TitleAcceptable, TitleBreakthrough, TitleLong,
     TitleTooLong, TitleClickbait, TitleCaps, TitleCapsClickbait}

\* "This is a test description for the article with enough content to be meaningful."
DescriptionTest == <<"T","h","i","s"," ","i","s"," ","a"," ","t","e","s","t"," ","d","e","s","c","r","i","p","t","i","o","n"," ","f","o","r"," ","t","h","e"," ","a","r","t","i","c","l","e"," ","w","i","t","h"," ","e","n","o","u","g","h"," ","c","o","n","t","e","n","t"," ","t","o"," ","b","e"," ","m","e","a","n","i","n","g","f","u","l",".">>

DescriptionText ==
    DescriptionTest \o <<" ">> \o DescriptionTest \o <<" ">> \o DescriptionTest
    \o <<" ">> \o DescriptionTest

\* descriptions of these lengths: absent, and around each threshold of the code
DescriptionLengths == {0, 19, 20, 50, 80, 100, 300, 301}

Descriptions == {SubSeq(DescriptionText, 1, n) : n \in DescriptionLengths}

\* "https://cdn.example.com/a.jpg"
ImageHttpsCdn == <<"h","t","t","p","s",":","/","/","c","d","n",".","e","x","a","m","p","l","e",".","c","o","m","/","a",".","j","p","g">>
\* "https://example.com/a.jpg"
ImageHttps == <<"h","t","t","p","s",":","/","/","e","x","a","m","p","l","e",".","c","o","m","/","a",".","j","p","g">>
\* "http://example.com/a.jpg"
ImageHttp == <<"h","t","t","p",":","/","/","e","x","a","m","p","l","e",".","c","o","m","/","a",".","j","p","g">>
\* "http://example.com/img/a.jpg"
ImageHttpImg == <<"h","t","t","p",":","/","/","e","x","a","m","p","l","e",".","c","o","m","/","i","m","g","/","a",".","j","p","g">>
\* "/static/a.jpg"
ImageRelative == <<"/","s","t","a","t","i","c","/","a",".","j","p","g">>

ImageUrls == {<<>>, ImageHttpsCdn, ImageHttps, ImageHttp, ImageHttpImg, ImageRelative}

\* the publishedAt strings: now, a millisecond less than 6 hours ago, 6 hours,
\* 1 day, 3 days, 7 days and 14 days ago, and a string that is no date
PublishedAts ==
    {ClockText,
     <<"2","0","2","4","-","0","1","-","2","0","T","0","6",":","0","0",":","0","0",".","0","0","1","Z">>,
     <<"2","0","2","4","-","0","1","-","2","0","T","0","6",":","0","0",":","0","0",".","0","0","0","Z">>,
     <<"2","0","2","4","-","0","1","-","1","9","T","1","2",":","0","0",":","0","0",".","0","0","0","Z">>,
     <<"2","0","2","4","-","0","1","-","1","7","T","1","2",":","0","0",":","0","0",".","0","0","0","Z">>,
     <<"2","0","2","4","-","0","1","-","1","3","T","1","2",":","0","0",":","0","0",".","0","0","0","Z">>,
     <<"2","0","2","4","-","0","1","-","0","6","T","1","2",":","0","0",":","0","0",".","0","0","0","Z">>,
     <<"i","n","v","a","l","i","d","-","d","a","t","e">>}

ArticleUrl == <<"h","t","t","p","s",":","/","/","e","x","a","m","p","l","e",".","c","o","m","/","a","r","t","i","c","l","e">>

createRawArticle(title, description, urlToImage, publishedAt) ==
    [title |-> title, description |-> description, url |-> ArticleUrl,
     urlToImage |-> urlToImage, publishedAt |-> publishedAt,
     source |-> [name |-> <<"T","e","s","t"," ","S","o","u","r","c","e">>]]

InitScore ==
    /\ rawArticle \in {createRawArticle(t, d, i, p) :
                          t \in ScoreTitles, d \in Descriptions,
                          i \in ImageUrls, p \in PublishedAts}
    /\ sourceConfig \in SourceConfigs
    /\ clock = dateGetTime(ClockText)[1]
    /\ score = <<>>
    /\ featured = <<>>
    /\ IdleDedup
    /\ IdlePipe
    /\ IdleRest

\* score = scoreArticle(rawArticle, sourceConfig)
ScoreArticle ==
    /\ score = <<>>
    /\ score' = <<scoreArticle(rawArticle, sourceConfig, clock)>>
    /\ UNCHANGED <<rawArticle, sourceConfig, clock, featured>>
    /\ UNCHANGED <<dedupVars, pipeVars, restVars>>

\* shouldFeatureArticle(score)
FeatureArticle ==
    /\ score # <<>>
    /\ featured = <<>>
    /\ featured' = <<shouldFeatureArticle(score[1])>>
    /\ UNCHANGED <<rawArticle, sourceConfig, clock, score>>
    /\ UNCHANGED <<dedupVars, pipeVars, restVars>>

NextScore == ScoreArticle \/ FeatureArticle

SpecScore == InitScore /\ [][NextScore]_vars

-----------------------------------------------------------------------------
(* Title harness: scoreArticle on titles around every threshold of          *)
(* calculateTitleQuality, as written and in upper case                      *)

\* "Fed cuts key rate after weak jobs report as markets rally and bond yields drop while traders bet on a calm autumn and banks trim their loan costs again today"
TitleFiller == <<"F","e","d"," ","c","u","t","s"," ","k","e","y"," ","r","a","t","e"," ","a","f","t","e","r"," ","w","e","a","k"," ","j","o","b","s"," ","r","e","p","o","r","t"," ","a","s"," ","m","a","r","k","e","t","s"," ","r","a","l","l","y"," ","a","n","d"," ","b","o","n","d"," ","y","i","e","l","d","s"," ","d","r","o","p"," ","w","h","i","l","e"," ","t","r","a","d","e","r","s"," ","b","e","t"," ","o","n"," ","a"," ","c","a","l","m"," ","a","u","t","u","m","n"," ","a","n","d"," ","b","a","n","k","s"," ","t","r","i","m"," ","t","h","e","i","r"," ","l","o","a","n"," ","c","o","s","t","s"," ","a","g","a","i","n"," ","t","o","d","a","y">>

\* nothing, "Major ", "Shocking " and "Shocking major " in front of the filler
TitlePrefixes ==
    {<<>>, <<"M","a","j","o","r"," ">>, <<"S","h","o","c","k","i","n","g"," ">>, <<"S","h","o","c","k","i","n","g"," ","m","a","j","o","r"," ">>}

\* the title lengths: empty, and around each threshold of the code
TitleLengths == {0, 1, 10, 11, 29, 30, 49, 50, 100, 101, 150, 151}

QualityTitles ==
    LET cut == {SubSeq(p \o TitleFiller, 1, n) : p \in TitlePrefixes, n \in TitleLengths}
    IN  cut \cup {toUpperCase(t) : t \in cut}

InitTitle ==
    /\ rawArticle \in {createRawArticle(t, <<>>, <<>>, ClockText) : t \in QualityTitles}
    /\ sourceConfig = <<>>
    /\ clock = dateGetTime(ClockText)[1]
    /\ score = <<>>
    /\ featured = <<>>
    /\ IdleDedup
    /\ IdlePipe
    /\ IdleRest

NextTitle == ScoreArticle

SpecTitle == InitTitle /\ [][NextTitle]_vars

-----------------------------------------------------------------------------
(* Source configuration (QUALITY_SOURCES, findSourceConfig) *)

QUALITY_SOURCES ==
    <<[domain |-> <<"t","e","c","h","c","r","u","n","c","h",".","c","o","m">>,
       name |-> <<"T","e","c","h","C","r","u","n","c","h">>,
       tier |-> 1, authorityScore |-> 100,
       categories |-> <<<<"T","e","c","h","n","o","l","o","g","y">>,
                        <<"B","u","s","i","n","e","s","s">>>>],
      [domain |-> <<"t","h","e","v","e","r","g","e",".","c","o","m">>,
       name |-> <<"T","h","e"," ","V","e","r","g","e">>,
       tier |-> 1, authorityScore |-> 100,
       categories |-> <<<<"T","e","c","h","n","o","l","o","g","y">>,
                        <<"S","c","i","e","n","c","e">>>>],
      [domain |-> <<"a","r","s","t","e","c","h","n","i","c","a",".","c","o","m">>,
       name |-> <<"A","r","s"," ","T","e","c","h","n","i","c","a">>,
       tier |-> 1, authorityScore |-> 100,
       categories |-> <<<<"T","e","c","h","n","o","l","o","g","y">>,
                        <<"S","c","i","e","n","c","e">>>>],
      [domain |-> <<"w","i","r","e","d",".","c","o","m">>,
       name |-> <<"W","i","r","e","d">>,
       tier |-> 1, authorityScore |-> 100,
       categories |-> <<<<"T","e","c","h","n","o","l","o","g","y">>,
                        <<"S","c","i","e","n","c","e">>>>],
      [domain |-> <<"e","n","g","a","d","g","e","t",".","c","o","m">>,
       name |-> <<"E","n","g","a","d","g","e","t">>,
       tier |-> 1, authorityScore |-> 100,
       categories |-> <<<<"T","e","c","h","n","o","l","o","g","y">>>>],
      [domain |-> <<"r","e","u","t","e","r","s",".","c","o","m">>,
       name |-> <<"R","e","u","t","e","r","s">>,
       tier |-> 1, authorityScore |-> 100,
       categories |-> <<<<"P","o","l","i","t","i","c","s">>,
                        <<"B","u","s","i","n","e","s","s">>,
                        <<"G","e","n","e","r","a","l">>>>],
      [domain |-> <<"a","p","n","e","w","s",".","c","o","m">>,
       name |-> <<"A","s","s","o","c","i","a","t","e","d"," ","P","r","e","s","s">>,
       tier |-> 1, authorityScore |-> 100,
       categories |-> <<<<"P","o","l","i","t","i","c","s">>,
                        <<"G","e","n","e","r","a","l">>>>],
      [domain |-> <<"b","l","o","o","m","b","e","r","g",".","c","o","m">>,
       name |-> <<"B","l","o","o","m","b","e","r","g">>,
       tier |-> 1, authorityScore |-> 100,
       categories |-> <<<<"B","u","s","i","n","e","s","s">>,
                        <<"P","o","l","i","t","i","c","s">>>>],
      [domain |-> <<"n","a","t","u","r","e",".","c","o","m">>,
       name |-> <<"N","a","t","u","r","e">>,
       tier |-> 1, authorityScore |-> 100,
       categories |-> <<<<"S","c","i","e","n","c","e">>,
                        <<"H","e","a","l","t","h">>>>],
      [domain |-> <<"s","c","i","e","n","t","i","f","i","c","a","m","e","r","i","c","a","n",".","c","o","m">>,
       name |-> <<"S","c","i","e","n","t","i","f","i","c"," ","A","m","e","r","i","c","a","n">>,
       tier |-> 1, authorityScore |-> 100,
       categories |-> <<<<"S","c","i","e","n","c","e">>,
                        <<"H","e","a","l","t","h">>>>],
      [domain |-> <<"n","e","w","s","c","i","e","n","t","i","s","t",".","c","o","m">>,
       name |-> <<"N","e","w"," ","S","c","i","e","n","t","i","s","t">>,
       tier |-> 1, authorityScore |-> 100,
       categories |-> <<<<"S","c","i","e","n","c","e">>,
                        <<"T","e","c","h","n","o","l","o","g","y">>>>],
      [domain |-> <<"c","n","e","t",".","c","o","m">>,
       name |-> <<"C","N","E","T">>,
       tier |-> 2, authorityScore |-> 80,
       categories |-> <<<<"T","e","c","h","n","o","l","o","g","y">>>>],
      [domain |-> <<"z","d","n","e","t",".","c","o","m">>,
       name |-> <<"Z","D","N","e","t">>,
       tier |-> 2, authorityScore |-> 80,
       categories |-> <<<<"T","e","c","h","n","o","l","o","g","y">>,
                        <<"B","u","s","i","n","e","s","s">>>>],
      [domain |-> <<"t","e","c","h","r","a","d","a","r",".","c","o","m">>,
       name |-> <<"T","e","c","h","R","a","d","a","r">>,
       tier |-> 2, authorityScore |-> 80,
       categories |-> <<<<"T","e","c","h","n","o","l","o","g","y">>>>],
      [domain |-> <<"v","e","n","t","u","r","e","b","e","a","t",".","c","o","m">>,
       name |-> <<"V","e","n","t","u","r","e","B","e","a","t">>,
       tier |-> 2, authorityScore |-> 80,
       categories |-> <<<<"T","e","c","h","n","o","l","o","g","y">>,
                        <<"B","u","s","i","n","e","s","s">>>>],
      [domain |-> <<"m","a","s","h","a","b","l","e",".","c","o","m">>,
       name |-> <<"M","a","s","h","a","b","l","e">>,
       tier |-> 2, authorityScore |-> 80,
       categories |-> <<<<"T","e","c","h","n","o","l","o","g","y">>,
                        <<"E","n","t","e","r","t","a","i","n","m","e","n","t">>>>],
      [domain |-> <<"t","h","e","g","u","a","r","d","i","a","n",".","c","o","m">>,
       name |-> <<"T","h","e"," ","G","u","a","r","d","i","a","n">>,
       tier |-> 2, authorityScore |-> 80,
       categories |-> <<<<"P","o","l","i","t","i","c","s">>,
                        <<"G","e","n","e","r","a","l">>,
                        <<"S","c","i","e","n","c","e">>>>],
      [domain |-> <<"b","b","c",".","c","o","m">>,
       name |-> <<"B","B","C">>,
       tier |-> 2, authorityScore |-> 80,
       categories |-> <<<<"P","o","l","i","t","i","c","s">>,
                        <<"G","e","n","e","r","a","l">>,
                        <<"S","c","i","e","n","c","e">>>>],
      [domain |-> <<"b","b","c",".","c","o",".","u","k">>,
       name |-> <<"B","B","C">>,
       tier |-> 2, authorityScore |-> 80,
       categories |-> <<<<"P","o","l","i","t","i","c","s">>,
                        <<"G","e","n","e","r","a","l">>,
                        <<"S","c","i","e","n","c","e">>>>],
      [domain |-> <<"w","a","s","h","i","n","g","t","o","n","p","o","s","t",".","c","o","m">>,
       name |-> <<"W","a","s","h","i","n","g","t","o","n"," ","P","o","s","t">>,
       tier |-> 2, authorityScore |-> 80,
       categories |-> <<<<"P","o","l","i","t","i","c","s">>,
                        <<"G","e","n","e","r","a","l">>>>],
      [domain |-> <<"n","y","t","i","m","e","s",".","c","o","m">>,
       name |-> <<"N","e","w"," ","Y","o","r","k"," ","T","i","m","e","s">>,
       tier |-> 2, authorityScore |-> 80,
       categories |-> <<<<"P","o","l","i","t","i","c","s">>,
                        <<"G","e","n","e","r","a","l">>,
                        <<"B","u","s","i","n","e","s","s">>>>],
      [domain |-> <<"w","s","j",".","c","o","m">>,
       name |-> <<"W","a","l","l"," ","S","t","r","e","e","t"," ","J","o","u","r","n","a","l">>,
       tier |-> 2, authorityScore |-> 80,
       categories |-> <<<<"B","u","s","i","n","e","s","s">>,
                        <<"P","o","l","i","t","i","c","s">>>>],
      [domain |-> <<"f","t",".","c","o","m">>,
       name |-> <<"F","i","n","a","n","c","i","a","l"," ","T","i","m","e","s">>,
       tier |-> 2, authorityScore |-> 80,
       categories |-> <<<<"B","u","s","i","n","e","s","s">>,
                        <<"P","o","l","i","t","i","c","s">>>>],
      [domain |-> <<"c","n","b","c",".","c","o","m">>,
       name |-> <<"C","N","B","C">>,
       tier |-> 2, authorityScore |-> 80,
       categories |-> <<<<"B","u","s","i","n","e","s","s">>,
                        <<"T","e","c","h","n","o","l","o","g","y">>>>],
      [domain |-> <<"f","o","r","b","e","s",".","c","o","m">>,
       name |-> <<"F","o","r","b","e","s">>,
       tier |-> 2, authorityScore |-> 80,
       categories |-> <<<<"B","u","s","i","n","e","s","s">>,
                        <<"T","e","c","h","n","o","l","o","g","y">>>>],
      [domain |-> <<"s","c","i","e","n","c","e",".","o","r","g">>,
       name |-> <<"S","c","i","e","n","c","e"," ","M","a","g","a","z","i","n","e">>,
       tier |-> 2, authorityScore |-> 80,
       categories |-> <<<<"S","c","i","e","n","c","e">>>>],
      [domain |-> <<"s","m","i","t","h","s","o","n","i","a","n","m","a","g",".","c","o","m">>,
       name |-> <<"S","m","i","t","h","s","o","n","i","a","n"," ","M","a","g","a","z","i","n","e">>,
       tier |-> 2, authorityScore |-> 80,
       categories |-> <<<<"S","c","i","e","n","c","e">>,
                        <<"G","e","n","e","r","a","l">>>>],
      [domain |-> <<"n","a","t","i","o","n","a","l","g","e","o","g","r","a","p","h","i","c",".","c","o","m">>,
       name |-> <<"N","a","t","i","o","n","a","l"," ","G","e","o","g","r","a","p","h","i","c">>,
       tier |-> 2, authorityScore |-> 80,
       categories |-> <<<<"S","c","i","e","n","c","e">>,
                        <<"H","e","a","l","t","h">>>>],
      [domain |-> <<"u","s","a","t","o","d","a","y",".","c","o","m">>,
       name |-> <<"U","S","A"," ","T","o","d","a","y">>,
       tier |-> 3, authorityScore |-> 60,
       categories |-> <<<<"G","e","n","e","r","a","l">>,
                        <<"P","o","l","i","t","i","c","s">>>>],
      [domain |-> <<"c","n","n",".","c","o","m">>,
       name |-> <<"C","N","N">>,
       tier |-> 3, authorityScore |-> 60,
       categories |-> <<<<"G","e","n","e","r","a","l">>,
                        <<"P","o","l","i","t","i","c","s">>>>],
      [domain |-> <<"a","b","c","n","e","w","s",".","g","o",".","c","o","m">>,
       name |-> <<"A","B","C"," ","N","e","w","s">>,
       tier |-> 3, authorityScore |-> 60,
       categories |-> <<<<"G","e","n","e","r","a","l">>,
                        <<"P","o","l","i","t","i","c","s">>>>],
      [domain |-> <<"n","b","c","n","e","w","s",".","c","o","m">>,
       name |-> <<"N","B","C"," ","N","e","w","s">>,
       tier |-> 3, authorityScore |-> 60,
       categories |-> <<<<"G","e","n","e","r","a","l">>,
                        <<"P","o","l","i","t","i","c","s">>>>],
      [domain |-> <<"c","b","s","n","e","w","s",".","c","o","m">>,
       name |-> <<"C","B","S"," ","N","e","w","s">>,
       tier |-> 3, authorityScore |-> 60,
       categories |-> <<<<"G","e","n","e","r","a","l">>,
                        <<"P","o","l","i","t","i","c","s">>>>],
      [domain |-> <<"p","o","l","i","t","i","c","o",".","c","o","m">>,
       name |-> <<"P","o","l","i","t","i","c","o">>,
       tier |-> 3, authorityScore |-> 60,
       categories |-> <<<<"P","o","l","i","t","i","c","s">>>>],
      [domain |-> <<"t","h","e","h","i","l","l",".","c","o","m">>,
       name |-> <<"T","h","e"," ","H","i","l","l">>,
       tier |-> 3, authorityScore |-> 60,
       categories |-> <<<<"P","o","l","i","t","i","c","s">>>>],
      [domain |-> <<"e","s","p","n",".","c","o","m">>,
       name |-> <<"E","S","P","N">>,
       tier |-> 3, authorityScore |-> 60,
       categories |-> <<<<"S","p","o","r","t","s">>>>],
      [domain |-> <<"s","i",".","c","o","m">>,
       name |-> <<"S","p","o","r","t","s"," ","I","l","l","u","s","t","r","a","t","e","d">>,
       tier |-> 3, authorityScore |-> 60,
       categories |-> <<<<"S","p","o","r","t","s">>>>],
      [domain |-> <<"b","l","e","a","c","h","e","r","r","e","p","o","r","t",".","c","o","m">>,
       name |-> <<"B","l","e","a","c","h","e","r"," ","R","e","p","o","r","t">>,
       tier |-> 3, authorityScore |-> 60,
       categories |-> <<<<"S","p","o","r","t","s">>>>],
      [domain |-> <<"v","a","r","i","e","t","y",".","c","o","m">>,
       name |-> <<"V","a","r","i","e","t","y">>,
       tier |-> 3, authorityScore |-> 60,
       categories |-> <<<<"E","n","t","e","r","t","a","i","n","m","e","n","t">>>>],
      [domain |-> <<"h","o","l","l","y","w","o","o","d","r","e","p","o","r","t","e","r",".","c","o","m">>,
       name |-> <<"H","o","l","l","y","w","o","o","d"," ","R","e","p","o","r","t","e","r">>,
       tier |-> 3, authorityScore |-> 60,
       categories |-> <<<<"E","n","t","e","r","t","a","i","n","m","e","n","t">>>>],
      [domain |-> <<"b","i","l","l","b","o","a","r","d",".","c","o","m">>,
       name |-> <<"B","i","l","l","b","o","a","r","d">>,
       tier |-> 3, authorityScore |-> 60,
       categories |-> <<<<"E","n","t","e","r","t","a","i","n","m","e","n","t">>>>],
      [domain |-> <<"r","o","l","l","i","n","g","s","t","o","n","e",".","c","o","m">>,
       name |-> <<"R","o","l","l","i","n","g"," ","S","t","o","n","e">>,
       tier |-> 3, authorityScore |-> 60,
       categories |-> <<<<"E","n","t","e","r","t","a","i","n","m","e","n","t">>>>],
      [domain |-> <<"h","e","a","l","t","h","l","i","n","e",".","c","o","m">>,
       name |-> <<"H","e","a","l","t","h","l","i","n","e">>,
       tier |-> 3, authorityScore |-> 60,
       categories |-> <<<<"H","e","a","l","t","h">>>>],
      [domain |-> <<"w","e","b","m","d",".","c","o","m">>,
       name |-> <<"W","e","b","M","D">>,
       tier |-> 3, authorityScore |-> 60,
       categories |-> <<<<"H","e","a","l","t","h">>>>],
      [domain |-> <<"m","e","d","i","c","a","l","n","e","w","s","t","o","d","a","y",".","c","o","m">>,
       name |-> <<"M","e","d","i","c","a","l"," ","N","e","w","s"," ","T","o","d","a","y">>,
       tier |-> 3, authorityScore |-> 60,
       categories |-> <<<<"H","e","a","l","t","h">>,
                        <<"S","c","i","e","n","c","e">>>>]>>

\* QUALITY_SOURCES.find(...): <<the first source that matches>>, or <<>>
findSourceConfig(sourceIdentifier) ==
    IF sourceIdentifier = <<>> THEN <<>>
    ELSE LET normalized == toLowerCase(sourceIdentifier)
             matches(source) ==
                 \/ includes(toLowerCase(source.domain), normalized)
                 \/ includes(toLowerCase(source.name), normalized)
                 \/ includes(normalized, toLowerCase(source.domain))
             hits == {k \in 1..Len(QUALITY_SOURCES) : matches(QUALITY_SOURCES[k])}
         IN  IF hits = {} THEN <<>>
             ELSE <<QUALITY_SOURCES[CHOOSE k \in hits : \A m \in hits : k <= m]>>

-----------------------------------------------------------------------------
(* Category configuration (CATEGORIES) and the keyword categorizer *)

CATEGORIES ==
    <<[name |-> <<"P","o","l","i","t","i","c","s">>,
       keywords |->
         [strong |->
            <<<<"e","l","e","c","t","i","o","n">>,
              <<"c","o","n","g","r","e","s","s">>,
              <<"s","e","n","a","t","e">>,
              <<"p","r","e","s","i","d","e","n","t">>,
              <<"l","e","g","i","s","l","a","t","i","o","n">>,
              <<"p","o","l","i","t","i","c","a","l">>,
              <<"v","o","t","e">>,
              <<"c","a","m","p","a","i","g","n">>,
              <<"p","a","r","l","i","a","m","e","n","t">>,
              <<"g","o","v","e","r","n","m","e","n","t">>,
              <<"p","o","l","i","t","i","c","i","a","n">>,
              <<"d","e","m","o","c","r","a","c","y">>,
              <<"r","e","p","u","b","l","i","c","a","n">>,
              <<"d","e","m","o","c","r","a","t">>,
              <<"p","o","l","i","c","y">>,
              <<"w","h","i","t","e"," ","h","o","u","s","e">>,
              <<"c","a","p","i","t","o","l">>>>,
          weak |->
            <<<<"l","a","w">>,
              <<"b","i","l","l">>,
              <<"c","o","m","m","i","t","t","e","e">>,
              <<"h","e","a","r","i","n","g">>,
              <<"d","e","b","a","t","e">>,
              <<"g","o","v","e","r","n","o","r">>,
              <<"m","a","y","o","r">>,
              <<"r","e","p","r","e","s","e","n","t","a","t","i","v","e">>,
              <<"s","e","n","a","t","o","r">>>>,
          exclude |->
            <<<<"s","p","o","r","t","s">>,
              <<"e","n","t","e","r","t","a","i","n","m","e","n","t">>,
              <<"m","o","v","i","e">>,
              <<"m","u","s","i","c">>,
              <<"g","a","m","e">>,
              <<"c","e","l","e","b","r","i","t","y">>,
              <<"a","l","b","u","m">>,
              <<"c","o","n","c","e","r","t">>>>]],
      [name |-> <<"T","e","c","h","n","o","l","o","g","y">>,
       keywords |->
         [strong |->
            <<<<"t","e","c","h","n","o","l","o","g","y">>,
              <<"t","e","c","h">>,
              <<"s","o","f","t","w","a","r","e">>,
              <<"a","i">>,
              <<"a","r","t","i","f","i","c","i","a","l"," ","i","n","t","e","l","l","i","g","e","n","c","e">>,
              <<"s","t","a","r","t","u","p">>,
              <<"a","p","p">>,
              <<"p","l","a","t","f","o","r","m">>,
              <<"d","i","g","i","t","a","l">>,
              <<"c","y","b","e","r">>,
              <<"d","a","t","a">>,
              <<"a","l","g","o","r","i","t","h","m">>,
              <<"c","o","d","i","n","g">>,
              <<"p","r","o","g","r","a","m","m","i","n","g">>,
              <<"d","e","v","e","l","o","p","e","r">>,
              <<"i","n","n","o","v","a","t","i","o","n">>,
              <<"g","a","d","g","e","t">>,
              <<"d","e","v","i","c","e">>,
              <<"s","m","a","r","t","p","h","o","n","e">>,
              <<"c","o","m","p","u","t","e","r">>>>,
          weak |->
            <<<<"o","n","l","i","n","e">>,
              <<"i","n","t","e","r","n","e","t">>,
              <<"w","e","b">>,
              <<"c","l","o","u","d">>,
              <<"n","e","t","w","o","r","k">>,
              <<"s","i","l","i","c","o","n"," ","v","a","l","l","e","y">>,
              <<"t","e","c","h"," ","c","o","m","p","a","n","y">>,
              <<"l","a","u","n","c","h">>,
              <<"u","p","d","a","t","e">>,
              <<"b","e","t","a">>>>,
          exclude |->
            <<<<"s","p","o","r","t","s">>,
              <<"m","u","s","i","c">>,
              <<"p","o","l","i","t","i","c","a","l"," ","c","a","m","p","a","i","g","n">>,
              <<"e","n","t","e","r","t","a","i","n","m","e","n","t"," ","i","n","d","u","s","t","r","y">>,
              <<"m","o","v","i","e"," ","p","r","o","d","u","c","t","i","o","n">>>>]],
      [name |-> <<"S","c","i","e","n","c","e">>,
       keywords |->
         [strong |->
            <<<<"s","c","i","e","n","c","e">>,
              <<"s","c","i","e","n","t","i","f","i","c">>,
              <<"r","e","s","e","a","r","c","h">>,
              <<"s","t","u","d","y">>,
              <<"d","i","s","c","o","v","e","r","y">>,
              <<"e","x","p","e","r","i","m","e","n","t">>,
              <<"s","c","i","e","n","t","i","s","t">>,
              <<"c","l","i","m","a","t","e">>,
              <<"e","n","v","i","r","o","n","m","e","n","t">>,
              <<"s","p","a","c","e">>,
              <<"n","a","s","a">>,
              <<"a","s","t","r","o","n","o","m","y">>,
              <<"p","h","y","s","i","c","s">>,
              <<"c","h","e","m","i","s","t","r","y">>,
              <<"b","i","o","l","o","g","y">>,
              <<"e","c","o","l","o","g","y">>,
              <<"r","e","n","e","w","a","b","l","e">>,
              <<"f","o","s","s","i","l">>,
              <<"o","c","e","a","n">>,
              <<"s","p","e","c","i","e","s">>>>,
          weak |->
            <<<<"l","a","b","o","r","a","t","o","r","y">>,
              <<"j","o","u","r","n","a","l">>,
              <<"p","u","b","l","i","s","h","e","d">>,
              <<"f","i","n","d","i","n","g","s">>,
              <<"b","r","e","a","k","t","h","r","o","u","g","h">>,
              <<"i","n","n","o","v","a","t","i","o","n">>,
              <<"p","l","a","n","e","t">>,
              <<"e","c","o","s","y","s","t","e","m">>,
              <<"c","o","n","s","e","r","v","a","t","i","o","n">>,
              <<"e","n","e","r","g","y">>>>,
          exclude |->
            <<<<"s","p","o","r","t","s"," ","s","c","i","e","n","c","e">>,
              <<"p","o","l","i","t","i","c","a","l"," ","s","c","i","e","n","c","e">>,
              <<"e","n","t","e","r","t","a","i","n","m","e","n","t">>,
              <<"m","u","s","i","c">>,
              <<"c","e","l","e","b","r","i","t","y">>>>]],
      [name |-> <<"E","n","t","e","r","t","a","i","n","m","e","n","t">>,
       keywords |->
         [strong |->
            <<<<"e","n","t","e","r","t","a","i","n","m","e","n","t">>,
              <<"m","o","v","i","e">>,
              <<"f","i","l","m">>,
              <<"a","c","t","o","r">>,
              <<"a","c","t","r","e","s","s">>,
              <<"c","e","l","e","b","r","i","t","y">>,
              <<"m","u","s","i","c">>,
              <<"a","l","b","u","m">>,
              <<"s","o","n","g">>,
              <<"c","o","n","c","e","r","t">>,
              <<"t","o","u","r">>,
              <<"a","r","t","i","s","t">>,
              <<"b","a","n","d">>,
              <<"m","u","s","i","c","i","a","n">>,
              <<"s","i","n","g","e","r">>,
              <<"h","o","l","l","y","w","o","o","d">>,
              <<"t","v"," ","s","h","o","w">>,
              <<"s","e","r","i","e","s">>,
              <<"s","t","r","e","a","m","i","n","g">>,
              <<"n","e","t","f","l","i","x">>,
              <<"d","i","s","n","e","y">>>>,
          weak |->
            <<<<"p","r","e","m","i","e","r","e">>,
              <<"r","e","l","e","a","s","e">>,
              <<"t","r","a","i","l","e","r">>,
              <<"b","o","x"," ","o","f","f","i","c","e">>,
              <<"a","w","a","r","d">>,
              <<"g","r","a","m","m","y">>,
              <<"o","s","c","a","r">>,
              <<"e","m","m","y">>,
              <<"p","e","r","f","o","r","m","a","n","c","e">>,
              <<"d","i","r","e","c","t","o","r">>,
              <<"p","r","o","d","u","c","e","r">>>>,
          exclude |->
            <<<<"p","o","l","i","t","i","c","a","l">>,
              <<"e","l","e","c","t","i","o","n">>,
              <<"c","o","n","g","r","e","s","s">>,
              <<"l","e","g","i","s","l","a","t","i","o","n">>,
              <<"s","p","o","r","t","s"," ","t","e","a","m">>,
              <<"m","e","d","i","c","a","l">>>>]],
      [name |-> <<"S","p","o","r","t","s">>,
       keywords |->
         [strong |->
            <<<<"s","p","o","r","t","s">>,
              <<"g","a","m","e">>,
              <<"t","e","a","m">>,
              <<"p","l","a","y","e","r">>,
              <<"a","t","h","l","e","t","e">>,
              <<"f","o","o","t","b","a","l","l">>,
              <<"b","a","s","k","e","t","b","a","l","l">>,
              <<"b","a","s","e","b","a","l","l">>,
              <<"s","o","c","c","e","r">>,
              <<"n","f","l">>,
              <<"n","b","a">>,
              <<"m","l","b">>,
              <<"n","h","l">>,
              <<"c","h","a","m","p","i","o","n","s","h","i","p">>,
              <<"t","o","u","r","n","a","m","e","n","t">>,
              <<"l","e","a","g","u","e">>,
              <<"c","o","a","c","h">>,
              <<"w","i","n">>,
              <<"l","o","s","s">>,
              <<"s","c","o","r","e">>>>,
          weak |->
            <<<<"m","a","t","c","h">>,
              <<"c","o","m","p","e","t","i","t","i","o","n">>,
              <<"p","l","a","y","o","f","f">>,
              <<"s","e","a","s","o","n">>,
              <<"d","r","a","f","t">>,
              <<"t","r","a","d","e">>,
              <<"c","o","n","t","r","a","c","t">>,
              <<"i","n","j","u","r","y">>,
              <<"r","e","c","o","r","d">>,
              <<"o","l","y","m","p","i","c">>>>,
          exclude |->
            <<<<"p","o","l","i","t","i","c","a","l">>,
              <<"m","o","v","i","e">>,
              <<"m","u","s","i","c">>,
              <<"e","n","t","e","r","t","a","i","n","m","e","n","t"," ","i","n","d","u","s","t","r","y">>,
              <<"t","e","c","h","n","o","l","o","g","y"," ","c","o","m","p","a","n","y">>,
              <<"s","c","i","e","n","t","i","f","i","c">>>>]],
      [name |-> <<"H","e","a","l","t","h">>,
       keywords |->
         [strong |->
            <<<<"h","e","a","l","t","h">>,
              <<"m","e","d","i","c","a","l">>,
              <<"m","e","d","i","c","i","n","e">>,
              <<"d","o","c","t","o","r">>,
              <<"h","o","s","p","i","t","a","l">>,
              <<"p","a","t","i","e","n","t">>,
              <<"d","i","s","e","a","s","e">>,
              <<"t","r","e","a","t","m","e","n","t">>,
              <<"d","r","u","g">>,
              <<"v","a","c","c","i","n","e">>,
              <<"p","a","n","d","e","m","i","c">>,
              <<"v","i","r","u","s">>,
              <<"c","a","n","c","e","r">>,
              <<"w","e","l","l","n","e","s","s">>,
              <<"h","e","a","l","t","h","c","a","r","e">>,
              <<"d","i","a","g","n","o","s","i","s">>,
              <<"t","h","e","r","a","p","y">>,
              <<"c","l","i","n","i","c","a","l">>,
              <<"f","d","a">>,
              <<"c","d","c">>>>,
          weak |->
            <<<<"s","y","m","p","t","o","m">>,
              <<"p","r","e","s","c","r","i","p","t","i","o","n">>,
              <<"p","h","a","r","m","a","c","e","u","t","i","c","a","l">>,
              <<"n","u","t","r","i","t","i","o","n">>,
              <<"d","i","e","t">>,
              <<"f","i","t","n","e","s","s">>,
              <<"m","e","n","t","a","l"," ","h","e","a","l","t","h">>,
              <<"s","u","r","g","e","o","n">>,
              <<"e","m","e","r","g","e","n","c","y">>>>,
          exclude |->
            <<<<"s","p","o","r","t","s"," ","h","e","a","l","t","h">>,
              <<"p","o","l","i","t","i","c","a","l"," ","h","e","a","l","t","h">>,
              <<"e","n","t","e","r","t","a","i","n","m","e","n","t">>,
              <<"m","u","s","i","c">>,
              <<"m","o","v","i","e">>>>]]>>

CategoryGeneral == <<"G","e","n","e","r","a","l">>

\* the length of the longest keyword of the configuration
MaxKeywordLength ==
    LET lengths == UNION {{Len(CATEGORIES[c].keywords.strong[k]) : k \in 1..Len(CATEGORIES[c].keywords.strong)}
                          \cup {Len(CATEGORIES[c].keywords.weak[k]) : k \in 1..Len(CATEGORIES[c].keywords.weak)}
                          \cup {Len(CATEGORIES[c].keywords.exclude[k]) : k \in 1..Len(CATEGORIES[c].keywords.exclude)}
                          : c \in 1..Len(CATEGORIES)}
    IN  CHOOSE n \in lengths : \A m \in lengths : m <= n

\* the substrings of s of each length up to MaxKeywordLength: s.includes(sub)
\* is asked once for every keyword, and answered from these sets
substringsOf(s) ==
    [n \in 1..MaxKeywordLength |->
        {SubSeq(s, i, i + n - 1) : i \in 1..(Len(s) - n + 1)}] \o <<>>

\* s.includes(sub), given substringsOf(s)
includedIn(substrings, sub) ==
    sub = <<>> \/ sub \in substrings[Len(sub)]

\* how many of the keywords occur in every one of the texts
countIncluded(keywords, texts) ==
    Cardinality({k \in 1..Len(keywords) :
                    \A t \in 1..Len(texts) : includedIn(texts[t], toLowerCase(keywords[k]))})

getSourceCategoryHint(config) ==
    IF config = <<>> THEN <<>> ELSE <<config[1].categories>>

\* the score of one category without the bonus of a strong keyword in the title
categoryScoreNoTitleBonus(category, content, titleLower, sourceHint) ==
    LET hintScore == IF /\ sourceHint # <<>>
                        /\ \E k \in 1..Len(sourceHint[1]) : sourceHint[1][k] = category.name
                     THEN 5 ELSE 0
    IN  hintScore
        + 2 * countIncluded(category.keywords.strong, <<content>>)
        + countIncluded(category.keywords.weak, <<content>>)
        - 5 * countIncluded(category.keywords.exclude, <<content>>)

\* the score of one category: lines 51 to 85 of the map callback; content
\* and title are given by their substrings
categoryScore(category, content, titleLower, sourceHint) ==
    LET hintScore == IF /\ sourceHint # <<>>
                        /\ \E k \in 1..Len(sourceHint[1]) : sourceHint[1][k] = category.name
                     THEN 5 ELSE 0
    IN  hintScore
        + 2 * countIncluded(category.keywords.strong, <<content>>)
        + countIncluded(category.keywords.strong, <<content, titleLower>>)
        + countIncluded(category.keywords.weak, <<content>>)
        - 5 * countIncluded(category.keywords.exclude, <<content>>)

\* scores.sort((a, b) => b.score - a.score): a stable sort
RECURSIVE insertScore(_, _)
insertScore(sorted, entry) ==
    IF sorted = <<>> THEN <<entry>>
    ELSE IF Head(sorted).score >= entry.score
         THEN <<Head(sorted)>> \o insertScore(Tail(sorted), entry)
         ELSE <<entry>> \o sorted

RECURSIVE sortScoresFrom(_, _, _)
sortScoresFrom(seq, i, acc) ==
    IF i > Len(seq) THEN acc ELSE sortScoresFrom(seq, i + 1, insertScore(acc, seq[i]))

\* a sort that puts an entry in front of the entries of equal score
RECURSIVE insertScoreInFront(_, _)
insertScoreInFront(sorted, entry) ==
    IF sorted = <<>> THEN <<entry>>
    ELSE IF Head(sorted).score > entry.score
         THEN <<Head(sorted)>> \o insertScoreInFront(Tail(sorted), entry)
         ELSE <<entry>> \o sorted

RECURSIVE sortScoresInFrontFrom(_, _, _)
sortScoresInFrontFrom(seq, i, acc) ==
    IF i > Len(seq) THEN acc
    ELSE sortScoresInFrontFrom(seq, i + 1, insertScoreInFront(acc, seq[i]))

sortScoresDescUnstable(seq) == sortScoresInFrontFrom(seq, 1, <<>>)

sortScoresDesc(seq) == sortScoresFrom(seq, 1, <<>>)

\* the threshold tested with > in place of >=
assignCategoryWithConfidenceStrictThreshold(article, config) ==
    LET sourceHint == getSourceCategoryHint(config)
        content == substringsOf(toLowerCase(article.title \o <<" ">> \o article.description))
        titleLower == substringsOf(toLowerCase(article.title))
        scores == sortScoresDesc(
                      [k \in 1..Len(CATEGORIES) |->
                          [category |-> CATEGORIES[k].name,
                           score |-> categoryScore(CATEGORIES[k], content, titleLower, sourceHint)]])
        winner == scores[1]
    IN  IF winner.score > 3
        THEN [category |-> winner.category,
              confidence |-> Min(100, 5 * winner.score),
              scores |-> scores]
        ELSE [category |-> CategoryGeneral, confidence |-> 0, scores |-> scores]

assignCategoryWithConfidence(article, config) ==
    LET sourceHint == getSourceCategoryHint(config)
        content == substringsOf(toLowerCase(article.title \o <<" ">> \o article.description))
        titleLower == substringsOf(toLowerCase(article.title))
        scores == sortScoresDesc(
                      [k \in 1..Len(CATEGORIES) |->
                          [category |-> CATEGORIES[k].name,
                           score |-> categoryScore(CATEGORIES[k], content, titleLower, sourceHint)]])
        winner == scores[1]
    IN  IF winner.score >= 3
        THEN [category |-> winner.category,
              confidence |-> Min(100, 5 * winner.score),
              scores |-> scores]
        ELSE [category |-> CategoryGeneral, confidence |-> 0, scores |-> scores]

assignCategory(article, config) == assignCategoryWithConfidence(article, config).category

\* sourceConfigs?.get(key): <<the SourceConfig>>, or <<>> for undefined
mapGet(configs, key) ==
    IF configs = <<>> THEN <<>>
    ELSE IF key \in DOMAIN configs[1] THEN <<configs[1][key]>> ELSE <<>>

\* a sourceConfig that outlives the callback and is kept when the Map has none
RECURSIVE categorizeCarrying(_, _, _, _)
categorizeCarrying(arts, configs, index, carried) ==
    IF index > Len(arts) THEN <<>>
    ELSE LET found == mapGet(configs, arts[index].source.name)
             config == IF found # <<>> THEN found ELSE carried
         IN  <<assignCategory(arts[index], config)>>
             \o categorizeCarrying(arts, configs, index + 1, config)

batchCategorizeCarriedConfig(arts, configs) == categorizeCarrying(arts, configs, 1, <<>>)

batchCategorize(arts, configs) ==
    [index \in 1..Len(arts) |->
        assignCategory(arts[index], mapGet(configs, arts[index].source.name))] \o <<>>

-----------------------------------------------------------------------------
(* Placeholder images (getPlaceholderForSeed) *)

placeholderImages ==
    <<<<"h","t","t","p","s",":","/","/","i","m","a","g","e","s",".","u","n","s","p","l","a","s","h",".","c","o","m","/","p","h","o","t","o","-","1","5","1","8","7","7","0","6","6","0","4","3","9","-","4","6","3","6","1","9","0","a","f","4","7","5","?","w","=","8","0","0","&","h","=","6","0","0","&","f","i","t","=","c","r","o","p">>,
      <<"h","t","t","p","s",":","/","/","i","m","a","g","e","s",".","u","n","s","p","l","a","s","h",".","c","o","m","/","p","h","o","t","o","-","1","5","0","7","4","1","3","2","4","5","1","6","4","-","6","1","6","0","d","8","2","9","8","b","3","1","?","w","=","8","0","0","&","h","=","6","0","0","&","f","i","t","=","c","r","o","p">>,
      <<"h","t","t","p","s",":","/","/","i","m","a","g","e","s",".","u","n","s","p","l","a","s","h",".","c","o","m","/","p","h","o","t","o","-","1","5","2","9","1","0","7","3","8","6","3","1","5","-","e","1","a","2","e","d","4","8","a","6","2","0","?","w","=","8","0","0","&","h","=","6","0","0","&","f","i","t","=","c","r","o","p">>,
      <<"h","t","t","p","s",":","/","/","i","m","a","g","e","s",".","u","n","s","p","l","a","s","h",".","c","o","m","/","p","h","o","t","o","-","1","4","5","4","1","6","5","8","0","4","6","0","6","-","c","3","d","5","7","b","c","8","6","b","4","0","?","w","=","8","0","0","&","h","=","6","0","0","&","f","i","t","=","c","r","o","p">>,
      <<"h","t","t","p","s",":","/","/","i","m","a","g","e","s",".","u","n","s","p","l","a","s","h",".","c","o","m","/","p","h","o","t","o","-","1","4","7","8","7","2","0","5","6","8","4","7","7","-","1","5","2","d","9","b","1","6","4","e","2","6","?","w","=","8","0","0","&","h","=","6","0","0","&","f","i","t","=","c","r","o","p">>,
      <<"h","t","t","p","s",":","/","/","i","m","a","g","e","s",".","u","n","s","p","l","a","s","h",".","c","o","m","/","p","h","o","t","o","-","1","4","6","1","8","9","6","8","3","6","9","3","4","-","f","f","e","6","0","7","b","a","8","2","1","1","?","w","=","8","0","0","&","h","=","6","0","0","&","f","i","t","=","c","r","o","p">>,
      <<"h","t","t","p","s",":","/","/","i","m","a","g","e","s",".","u","n","s","p","l","a","s","h",".","c","o","m","/","p","h","o","t","o","-","1","5","0","5","7","5","1","1","7","2","8","7","6","-","f","a","1","9","2","3","c","5","c","5","2","8","?","w","=","8","0","0","&","h","=","6","0","0","&","f","i","t","=","c","r","o","p">>,
      <<"h","t","t","p","s",":","/","/","i","m","a","g","e","s",".","u","n","s","p","l","a","s","h",".","c","o","m","/","p","h","o","t","o","-","1","5","0","4","7","1","1","4","3","4","9","6","9","-","e","3","3","8","8","6","1","6","8","f","5","c","?","w","=","8","0","0","&","h","=","6","0","0","&","f","i","t","=","c","r","o","p">>>>

\* the characters with the codes 35 to 91 and 97 to 126, in the order of
\* their codes (the strings of the model hold no double quote, backslash,
\* caret or backquote)
AsciiFrom35 ==
    <<"#","$","%","&","'","(",")","*","+",",","-",".","/","0","1","2","3","4","5","6","7","8","9",":",";","<","=",">","?","@","A","B","C","D","E","F","G","H","I","J","K","L","M","N","O","P","Q","R","S","T","U","V","W","X","Y","Z","[">>
AsciiFrom97 ==
    <<"a","b","c","d","e","f","g","h","i","j","k","l","m","n","o","p","q","r","s","t","u","v","w","x","y","z","{","|","}","~">>

\* String.prototype.charCodeAt of one character
charCodeAt(c) ==
    IF c = "\t" THEN 9
    ELSE IF c = " " THEN 32
    ELSE IF c = "!" THEN 33
    ELSE IF c = "]" THEN 93
    ELSE IF c = "_" THEN 95
    ELSE IF \E n \in 1..Len(AsciiFrom35) : AsciiFrom35[n] = c
         THEN 34 + (CHOOSE n \in 1..Len(AsciiFrom35) : AsciiFrom35[n] = c)
         ELSE 96 + (CHOOSE n \in 1..Len(AsciiFrom97) : AsciiFrom97[n] = c)

\* hash = ((hash << 5) - hash) + code; hash = hash & hash.  A 32-bit
\* integer is kept as <<its high 16 bits, its low 16 bits>>.
hashStep(hash, code) ==
    LET low == 31 * hash[2] + code
        high == 31 * hash[1] + (low \div 65536)
    IN  <<high % 65536, low % 65536>>

RECURSIVE hashFrom(_, _, _)
hashFrom(seed, i, hash) ==
    IF i > Len(seed) THEN hash
    ELSE LET next == hashStep(hash, charCodeAt(seed[i]))
         IN  \* the hash is computed character by character, each a 32-bit integer
             IF next \in (0..65535) \X (0..65535)
             THEN hashFrom(seed, i + 1, next)
             ELSE hash

\* Math.abs(hash) % placeholderImages.length, for 8 images: a hash with the
\* top bit set is negative and its absolute value is 2^32 less the bits
absHashIndex(hash) ==
    IF hash[1] >= 32768
    THEN (Len(placeholderImages) - (hash[2] % Len(placeholderImages))) % Len(placeholderImages)
    ELSE hash[2] % Len(placeholderImages)

getPlaceholderForSeed(seed) ==
    placeholderImages[absHashIndex(hashFrom(seed, 1, <<0, 0>>)) + 1]

-----------------------------------------------------------------------------
(* The pipeline orchestrator (processArticles) *)

\* Math.round of a non-negative number given in tenths; the result, a whole
\* number, is in tenths as well
mathRoundMissing(tenths) == tenths

mathRound(tenths) == 10 * ((tenths + 5) \div 10)

NoDescription == <<"N","o"," ","d","e","s","c","r","i","p","t","i","o","n"," ","a","v","a","i","l","a","b","l","e">>

\* step 1: the article with its score and its source profile
scoreRawArticle(article, now) ==
    LET config == findSourceConfig(article.source.name)
    IN  [title |-> article.title, description |-> article.description,
         url |-> article.url, urlToImage |-> article.urlToImage,
         publishedAt |-> article.publishedAt, source |-> article.source,
         score |-> scoreArticle(article, config, now),
         sourceConfig |-> config]

\* options?.category
optionsCategory(opts) == IF opts = <<>> THEN <<>> ELSE opts[1].category

\* the category of the options ignored
toArticleAlwaysCategorized(article, index, opts) ==
    [id |-> index + 1,
     title |-> article.title,
     description |-> IF article.description # <<>> THEN article.description
                     ELSE NoDescription,
     url |-> article.url,
     urlToImage |-> IF article.urlToImage # <<>> THEN article.urlToImage
                    ELSE getPlaceholderForSeed(article.url \o <<"|">> \o article.title
                                               \o <<"|">> \o article.publishedAt),
     publishedAt |-> article.publishedAt,
     category |-> assignCategory([title |-> article.title,
                                  description |-> article.description,
                                  source |-> article.source],
                                 article.sourceConfig),
     score |-> mathRound(article.score.total),
     sourceName |-> IF article.sourceConfig # <<>> /\ article.sourceConfig[1].name # <<>>
                    THEN article.sourceConfig[1].name
                    ELSE article.source.name]

\* the id taken from the index as it is, counted from 0
toArticleIndexAsId(article, index, opts) ==
    [id |-> index,
     title |-> article.title,
     description |-> IF article.description # <<>> THEN article.description
                     ELSE NoDescription,
     url |-> article.url,
     urlToImage |-> IF article.urlToImage # <<>> THEN article.urlToImage
                    ELSE getPlaceholderForSeed(article.url \o <<"|">> \o article.title
                                               \o <<"|">> \o article.publishedAt),
     publishedAt |-> article.publishedAt,
     category |-> IF optionsCategory(opts) # <<>>
                  THEN optionsCategory(opts)[1].name
                  ELSE assignCategory([title |-> article.title,
                                       description |-> article.description,
                                       source |-> article.source],
                                      article.sourceConfig),
     score |-> mathRound(article.score.total),
     sourceName |-> IF article.sourceConfig # <<>> /\ article.sourceConfig[1].name # <<>>
                    THEN article.sourceConfig[1].name
                    ELSE article.source.name]

\* step 4: the Article made of the scored article at position index + 1
toArticle(article, index, opts) ==
    [id |-> index + 1,
     title |-> article.title,
     description |-> IF article.description # <<>> THEN article.description
                     ELSE NoDescription,
     url |-> article.url,
     urlToImage |-> IF article.urlToImage # <<>> THEN article.urlToImage
                    ELSE getPlaceholderForSeed(article.url \o <<"|">> \o article.title
                                               \o <<"|">> \o article.publishedAt),
     publishedAt |-> article.publishedAt,
     category |-> IF optionsCategory(opts) # <<>>
                  THEN optionsCategory(opts)[1].name
                  ELSE assignCategory([title |-> article.title,
                                       description |-> article.description,
                                       source |-> article.source],
                                      article.sourceConfig),
     score |-> mathRound(article.score.total),
     sourceName |-> IF article.sourceConfig # <<>> /\ article.sourceConfig[1].name # <<>>
                    THEN article.sourceConfig[1].name
                    ELSE article.source.name]

processArticles(raw, opts, now) ==
    LET scored == [i \in 1..Len(raw) |-> scoreRawArticle(raw[i], now)]
        deduplicated == deduplicateArticles(scored)
        sorted == sortByScoreDesc(deduplicated)
    IN  [i \in 1..Len(sorted) |-> toArticle(sorted[i], i - 1, opts)]

-----------------------------------------------------------------------------
(* Pipeline harness: the batches of lib/__tests__/integration.test.ts *)

MaxRaw == 2

SevenDaysAgoText == <<"2","0","2","4","-","0","1","-","1","3","T","1","2",":","0","0",":","0","0",".","0","0","0","Z">>

InvalidDateText == <<"i","n","v","a","l","i","d","-","d","a","t","e">>

rawArticleOf(title, description, url, urlToImage, publishedAt, sourceName) ==
    [title |-> title, description |-> description, url |-> url,
     urlToImage |-> urlToImage, publishedAt |-> publishedAt,
     source |-> [name |-> sourceName]]

\* 'Apple announces iPhone 15 with new features'
TitleFeatures == <<"A","p","p","l","e"," ","a","n","n","o","u","n","c","e","s"," ","i","P","h","o","n","e"," ","1","5"," ","w","i","t","h"," ","n","e","w"," ","f","e","a","t","u","r","e","s">>

RawPool ==
    <<rawArticleOf(<<"S","e","n","a","t","e"," ","p","a","s","s","e","s"," ","c","l","i","m","a","t","e"," ","l","e","g","i","s","l","a","t","i","o","n">>,
                   <<"C","o","n","g","r","e","s","s"," ","v","o","t","e","s"," ","o","n"," ","e","n","v","i","r","o","n","m","e","n","t","a","l"," ","p","o","l","i","c","y">>,
                   <<"h","t","t","p","s",":","/","/","p","o","l","i","t","i","c","o",".","c","o","m","/","1">>, <<"h","t","t","p","s",":","/","/","p","o","l","i","t","i","c","o",".","c","o","m","/","i","m","a","g","e",".","j","p","g">>,
                   ClockText, <<"P","o","l","i","t","i","c","o">>),
      rawArticleOf(<<"R","e","c","e","n","t"," ","a","r","t","i","c","l","e"," ","f","r","o","m"," ","p","r","e","m","i","u","m"," ","s","o","u","r","c","e">>,
                   <<"T","h","i","s"," ","i","s"," ","a"," ","c","o","m","p","r","e","h","e","n","s","i","v","e"," ","d","e","s","c","r","i","p","t","i","o","n"," ","w","i","t","h"," ","m","e","a","n","i","n","g","f","u","l"," ","c","o","n","t","e","n","t"," ","a","b","o","u","t"," ","t","h","e"," ","b","r","e","a","k","t","h","r","o","u","g","h">>,
                   <<"h","t","t","p","s",":","/","/","t","e","c","h","c","r","u","n","c","h",".","c","o","m","/","1">>, <<"h","t","t","p","s",":","/","/","t","e","c","h","c","r","u","n","c","h",".","c","o","m","/","i","m","a","g","e",".","j","p","g">>,
                   ClockText, SourceTechCrunch),
      rawArticleOf(<<"O","l","d"," ","a","r","t","i","c","l","e"," ","f","r","o","m"," ","l","o","w","e","r"," ","t","i","e","r">>,
                   <<"S","h","o","r","t">>,
                   <<"h","t","t","p","s",":","/","/","u","s","a","t","o","d","a","y",".","c","o","m","/","1">>, <<>>,
                   SevenDaysAgoText, <<"U","S","A"," ","T","o","d","a","y">>),
      rawArticleOf(TitleFeatures,
                   <<"A","p","p","l","e"," ","u","n","v","e","i","l","s"," ","l","a","t","e","s","t"," ","s","m","a","r","t","p","h","o","n","e">>,
                   <<"h","t","t","p","s",":","/","/","t","e","c","h","c","r","u","n","c","h",".","c","o","m","/","2">>, <<>>,
                   ClockText, SourceTechCrunch),
      rawArticleOf(TitleFeatures,
                   <<"A","p","p","l","e"," ","r","e","v","e","a","l","s"," ","n","e","w","e","s","t"," ","i","P","h","o","n","e"," ","m","o","d","e","l">>,
                   <<"h","t","t","p","s",":","/","/","t","h","e","v","e","r","g","e",".","c","o","m","/","1">>, <<>>,
                   ClockText, <<"T","h","e"," ","V","e","r","g","e">>),
      rawArticleOf(TitleFeatures,
                   <<"L","a","t","e","s","t"," ","i","P","h","o","n","e"," ","a","n","n","o","u","n","c","e","d"," ","b","y"," ","A","p","p","l","e">>,
                   <<"h","t","t","p","s",":","/","/","c","n","e","t",".","c","o","m","/","1">>, <<>>,
                   ClockText, <<"C","N","E","T">>),
      rawArticleOf(<<>>, <<>>, <<"h","t","t","p","s",":","/","/","e","x","a","m","p","l","e",".","c","o","m","/","1">>, <<>>, InvalidDateText, <<>>)>>

\* every batch of at most n raw articles of the pool
RawBatches(n) ==
    UNION {{[i \in 1..k |-> RawPool[f[i]]] : f \in [1..k -> 1..Len(RawPool)]} : k \in 0..n}

\* no options, options without a category, and a category fetch
FetchOptions ==
    {<<>>, <<[category |-> <<>>]>>, <<[category |-> <<CATEGORIES[2]>>]>>}

Init ==
    /\ rawArticles \in RawBatches(MaxRaw)
    /\ options \in FetchOptions
    /\ clock = dateGetTime(ClockText)[1]
    /\ output = <<>>
    /\ rawArticle = <<>>
    /\ sourceConfig = <<>>
    /\ score = <<>>
    /\ featured = <<>>
    /\ IdleDedup
    /\ IdleRest

\* output = processArticles(rawArticles, options)
ProcessArticles ==
    /\ output = <<>>
    /\ output' = <<processArticles(rawArticles, options, clock)>>
    /\ UNCHANGED <<rawArticles, options>>
    /\ UNCHANGED <<dedupVars, scoreVars, restVars>>

Next == ProcessArticles

Spec == Init /\ [][Next]_vars

-----------------------------------------------------------------------------
(* Ties harness: processArticles on batches whose articles share a total *)

MaxTied == 3

\* the Senate article of Politico (57.0) and two more articles of Politico
\* with the same total, the same Senate story from an unknown source with a
\* lower total, and the TechCrunch article (70.0)
TiePool ==
    <<RawPool[1],
      rawArticleOf(<<"M","a","y","o","r"," ","o","p","e","n","s"," ","t","h","e"," ","l","a","r","g","e"," ","c","i","t","y"," ","l","i","b","r","a","r","y"," ","d","o","w","n","t","o","w","n">>,
                   <<"C","o","u","n","c","i","l"," ","f","u","n","d","s"," ","t","h","e"," ","r","e","a","d","i","n","g"," ","r","o","o","m">>,
                   <<"h","t","t","p","s",":","/","/","p","o","l","i","t","i","c","o",".","c","o","m","/","2">>, <<"h","t","t","p","s",":","/","/","p","o","l","i","t","i","c","o",".","c","o","m","/","i","m","a","g","e",".","j","p","g">>,
                   ClockText, <<"P","o","l","i","t","i","c","o">>),
      rawArticleOf(<<"G","o","v","e","r","n","o","r"," ","s","i","g","n","s"," ","t","h","e"," ","a","n","n","u","a","l"," ","s","t","a","t","e"," ","b","u","d","g","e","t"," ","p","l","a","n">>,
                   <<"L","a","w","m","a","k","e","r","s"," ","b","a","c","k"," ","t","h","e"," ","s","p","e","n","d","i","n","g"," ","d","e","a","l">>,
                   <<"h","t","t","p","s",":","/","/","p","o","l","i","t","i","c","o",".","c","o","m","/","3">>, <<"h","t","t","p","s",":","/","/","p","o","l","i","t","i","c","o",".","c","o","m","/","i","m","a","g","e",".","j","p","g">>,
                   ClockText, <<"P","o","l","i","t","i","c","o">>),
      rawArticleOf(<<"S","e","n","a","t","e"," ","p","a","s","s","e","s"," ","c","l","i","m","a","t","e"," ","l","e","g","i","s","l","a","t","i","o","n">>,
                   <<"C","o","n","g","r","e","s","s"," ","v","o","t","e","s"," ","o","n"," ","e","n","v","i","r","o","n","m","e","n","t","a","l"," ","p","o","l","i","c","y">>,
                   <<"h","t","t","p","s",":","/","/","b","l","o","g",".","e","x","a","m","p","l","e",".","c","o","m","/","1">>, <<>>,
                   ClockText, <<"U","n","k","n","o","w","n"," ","B","l","o","g">>),
      RawPool[2]>>

\* every batch of at most n raw articles of the pool
TieBatches(n) ==
    UNION {{[i \in 1..k |-> TiePool[f[i]]] : f \in [1..k -> 1..Len(TiePool)]} : k \in 0..n}

InitTies ==
    /\ rawArticles \in TieBatches(MaxTied)
    /\ options = <<>>
    /\ clock = dateGetTime(ClockText)[1]
    /\ output = <<>>
    /\ rawArticle = <<>>
    /\ sourceConfig = <<>>
    /\ score = <<>>
    /\ featured = <<>>
    /\ IdleDedup
    /\ IdleRest

NextTies == ProcessArticles

SpecTies == InitTies /\ [][NextTies]_vars

-----------------------------------------------------------------------------
(* Source lookup harness: the calls of the findSourceConfig tests *)

\* every configured domain and name, and: no identifier, a name in upper
\* case, a part of a domain, unknown sources, a URL that holds a domain, parts
\* that several profiles hold, and names that hold the name of a profile
SourceQueries ==
    {QUALITY_SOURCES[k].domain : k \in 1..Len(QUALITY_SOURCES)}
    \cup {QUALITY_SOURCES[k].name : k \in 1..Len(QUALITY_SOURCES)}
    \cup {<<>>,
          <<"T","E","C","H","C","R","U","N","C","H">>,
          <<"t","e","c","h","c","r","u","n","c","h">>,
          <<"u","n","k","n","o","w","n","-","s","o","u","r","c","e",".","c","o","m">>,
          <<"U","n","k","n","o","w","n"," ","B","l","o","g">>,
          <<"h","t","t","p","s",":","/","/","w","w","w",".","t","h","e","v","e","r","g","e",".","c","o","m","/","t","e","c","h">>,
          <<"c","o","m">>,
          <<"n","e","w","s">>,
          <<"e">>,
          <<"B","B","C"," ","N","e","w","s">>,
          <<"T","h","e"," ","N","e","w"," ","Y","o","r","k"," ","T","i","m","e","s">>,
          <<"R","e","u","t","e","r","s"," ","U","K">>}

InitLookup ==
    /\ sourceQuery \in SourceQueries
    /\ sourceFound = <<>>
    /\ IdleCat
    /\ IdleMore
    /\ IdleDedup
    /\ IdleScore
    /\ IdlePipe

\* sourceFound = findSourceConfig(sourceQuery)
FindSourceConfig ==
    /\ sourceFound = <<>>
    /\ sourceFound' = <<findSourceConfig(sourceQuery)>>
    /\ UNCHANGED sourceQuery
    /\ UNCHANGED <<dedupVars, scoreVars, pipeVars, catVars, moreVars>>

NextLookup == FindSourceConfig

SpecLookup == InitLookup /\ [][NextLookup]_vars

-----------------------------------------------------------------------------
(* Categorizer harness: the articles of                                     *)
(* lib/categorization/__tests__/categorizer.test.ts, each alone             *)

mockTechSource == mockTier1Source

SourcePolitico == <<"P","o","l","i","t","i","c","o">>

mockPoliticsSource ==
    [domain |-> <<"p","o","l","i","t","i","c","o",".","c","o","m">>, tier |-> 3, authorityScore |-> 60,
     categories |-> <<<<"P","o","l","i","t","i","c","s">>>>, name |-> SourcePolitico]

\* new Map([['TechCrunch', mockTechSource], ['Politico', mockPoliticsSource]])
mockSourceConfigs ==
    [name \in {SourceTechCrunch, SourcePolitico} |->
        IF name = SourceTechCrunch THEN mockTechSource ELSE mockPoliticsSource]

catArticleOf(title, description, sourceName) ==
    [title |-> title, description |-> description, source |-> [name |-> sourceName]]

\* title and description of the articles
CatTexts ==
    <<<<<<>>,
        <<>>>>,
      <<<<"S","o","m","e","t","h","i","n","g"," ","h","a","p","p","e","n","e","d">>,
        <<"N","e","w","s"," ","a","b","o","u","t"," ","a","n"," ","e","v","e","n","t">>>>,
      <<<<"T","e","c","h","n","o","l","o","g","y"," ","b","r","e","a","k","t","h","r","o","u","g","h"," ","a","n","n","o","u","n","c","e","d">>,
        <<"S","o","m","e"," ","n","e","w","s">>>>,
      <<<<"A","n","n","o","u","n","c","e","m","e","n","t"," ","m","a","d","e">>,
        <<"T","e","c","h","n","o","l","o","g","y"," ","b","r","e","a","k","t","h","r","o","u","g","h"," ","n","e","w","s">>>>,
      <<<<"S","e","n","a","t","e"," ","m","e","e","t","s">>,
        <<"S","o","m","e"," ","n","e","w","s">>>>,
      <<<<"A","n","n","o","u","n","c","e","m","e","n","t"," ","m","a","d","e">>,
        <<"S","e","n","a","t","e"," ","m","e","e","t","s">>>>,
      <<<<"S","e","n","a","t","e"," ","f","i","l","m">>,
        <<"S","o","m","e"," ","n","e","w","s">>>>,
      <<<<"F","i","l","m"," ","d","o","c","t","o","r">>,
        <<"S","o","m","e"," ","n","e","w","s">>>>,
      <<<<"G","a","m","e"," ","t","h","e","o","r","y"," ","i","n"," ","p","o","l","i","t","i","c","a","l"," ","s","c","i","e","n","c","e"," ","r","e","s","e","a","r","c","h">>,
        <<"S","c","i","e","n","t","i","s","t","s"," ","s","t","u","d","y"," ","h","o","w"," ","g","a","m","e"," ","t","h","e","o","r","y"," ","a","p","p","l","i","e","s"," ","t","o"," ","p","o","l","i","t","i","c","a","l"," ","d","e","c","i","s","i","o","n","s">>>>,
      <<<<"A","I"," ","s","o","f","t","w","a","r","e"," ","t","e","c","h","n","o","l","o","g","y"," ","p","l","a","t","f","o","r","m"," ","c","o","d","i","n","g"," ","d","e","v","e","l","o","p","e","r"," ","i","n","n","o","v","a","t","i","o","n">>,
        <<"T","e","c","h"," ","s","t","a","r","t","u","p"," ","d","i","g","i","t","a","l"," ","s","o","f","t","w","a","r","e"," ","a","r","t","i","f","i","c","i","a","l"," ","i","n","t","e","l","l","i","g","e","n","c","e"," ","m","a","c","h","i","n","e"," ","l","e","a","r","n","i","n","g">>>>,
      <<<<"G","e","n","e","r","i","c"," ","n","e","w","s">>,
        <<"S","o","m","e","t","h","i","n","g"," ","h","a","p","p","e","n","e","d">>>>,
      <<<<"V","i","s","i","t"," ","t","o"," ","t","h","e"," ","w","h","i","t","e">>,
        <<"h","o","u","s","e"," ","g","a","r","d","e","n">>>>,
      <<<<"E","l","e","c","t","i","o","n"," ","r","e","s","u","l","t","s"," ","a","n","n","o","u","n","c","e","d">>,
        <<"P","o","l","i","t","i","c","a","l"," ","n","e","w","s">>>>,
      <<<<"S","c","i","e","n","t","i","f","i","c"," ","b","r","e","a","k","t","h","r","o","u","g","h">>,
        <<"R","e","s","e","a","r","c","h"," ","s","t","u","d","y">>>>,
      <<<<"A","I"," ","t","e","c","h","n","o","l","o","g","y"," ","n","e","w","s">>,
        <<"T","e","c","h"," ","a","r","t","i","c","l","e">>>>,
      <<<<"L","a","w">>,
        <<>>>>>>

\* no source, or one of the two sources of the Map
CatSources == {<<>>, SourceTechCrunch, SourcePolitico}

\* sourceConfigs is undefined, or the Map
CatConfigs == {<<>>, <<mockSourceConfigs>>}

InitCategorize ==
    /\ catArticles \in {<<catArticleOf(CatTexts[k][1], CatTexts[k][2], s)>> :
                           k \in 1..Len(CatTexts), s \in CatSources}
    /\ catConfigs \in CatConfigs
    /\ catResults = <<>>
    /\ catBatch = <<>>
    /\ IdleLookup
    /\ IdleMore
    /\ IdleDedup
    /\ IdleScore
    /\ IdlePipe

\* assignCategoryWithConfidence(article, sourceConfigs?.get(name)) on each
\* article alone
AssignCategoryWithConfidence ==
    /\ catResults = <<>>
    /\ catResults' = <<[i \in 1..Len(catArticles) |->
                          assignCategoryWithConfidence(
                              catArticles[i],
                              mapGet(catConfigs, catArticles[i].source.name))] \o <<>>>>
    /\ UNCHANGED <<catArticles, catConfigs, catBatch>>
    /\ UNCHANGED <<dedupVars, scoreVars, pipeVars, lookupVars, moreVars>>

NextCategorize == AssignCategoryWithConfidence

SpecCategorize == InitCategorize /\ [][NextCategorize]_vars

-----------------------------------------------------------------------------
(* Batch harness: batchCategorize on every batch of a few articles *)

MaxCatBatch == 2

\* the articles of the batchCategorize tests, and an article without text
BatchPool ==
    <<catArticleOf(CatTexts[15][1], CatTexts[15][2], <<>>),
      catArticleOf(CatTexts[13][1], CatTexts[13][2], <<>>),
      catArticleOf(CatTexts[11][1], CatTexts[11][2], SourceTechCrunch),
      catArticleOf(CatTexts[1][1], CatTexts[1][2], <<>>)>>

CatBatches(n) ==
    UNION {{[i \in 1..k |-> BatchPool[f[i]]] : f \in [1..k -> 1..Len(BatchPool)]} : k \in 0..n}

InitBatch ==
    /\ catArticles \in CatBatches(MaxCatBatch)
    /\ catConfigs \in CatConfigs
    /\ catResults = <<>>
    /\ catBatch = <<>>
    /\ IdleLookup
    /\ IdleMore
    /\ IdleDedup
    /\ IdleScore
    /\ IdlePipe

\* catBatch = batchCategorize(catArticles, catConfigs)
BatchCategorize ==
    /\ catBatch = <<>>
    /\ catBatch' = <<batchCategorize(catArticles, catConfigs)>>
    /\ UNCHANGED <<catArticles, catConfigs, catResults>>
    /\ UNCHANGED <<dedupVars, scoreVars, pipeVars, lookupVars, moreVars>>

NextBatch == AssignCategoryWithConfidence \/ BatchCategorize

SpecBatch == InitBatch /\ [][NextBatch]_vars

-----------------------------------------------------------------------------
(* lib/monitoring/api-tracker.ts.  The module's currentUsage is a record   *)
(* [date, count, requests]; a date string is the number of its day.  An    *)
(* operation is an operator from the usage before and the day of the call  *)
(* to the usage after and the value returned.                              *)

DAILY_LIMIT == 500

WARNING_THRESHOLD == 450

\* { date: today, count: 0, requests: [] }
freshUsage(day) == [date |-> day, count |-> 0, requests |-> <<>>]

\* "Reset if it's a new day"
rolledOver(usage, day) == IF day # usage.date THEN freshUsage(day) ELSE usage

\* Math.round(percentage * 10) / 10 of (count / DAILY_LIMIT) * 100, in tenths
percentageOf(count) == (2 * count * 1000 + DAILY_LIMIT) \div (2 * DAILY_LIMIT)

\* trackAPIRequest that stops counting at the limit
trackAPIRequestCapped(usage, day, endpoint, metadata) ==
    LET rolled == rolledOver(usage, day)
        count  == IF rolled.count < DAILY_LIMIT THEN rolled.count + 1 ELSE rolled.count
    IN  [usage |-> [date |-> rolled.date, count |-> count,
                    requests |-> IF rolled.count < DAILY_LIMIT
                                 THEN Append(rolled.requests,
                                             [timestamp |-> day, endpoint |-> endpoint,
                                              query |-> metadata.query,
                                              strategy |-> metadata.strategy])
                                 ELSE rolled.requests],
         result |-> [count |-> count, remaining |-> DAILY_LIMIT - count,
                     percentage |-> percentageOf(count),
                     warning |-> count >= WARNING_THRESHOLD]]

\* metadata is [query, strategy], each <<>> when it is not given
trackAPIRequest(usage, day, endpoint, metadata) ==
    LET rolled == rolledOver(usage, day)
        count  == rolled.count + 1
    IN  [usage |-> [date |-> rolled.date, count |-> count,
                    requests |-> Append(rolled.requests,
                                        [timestamp |-> day, endpoint |-> endpoint,
                                         query |-> metadata.query,
                                         strategy |-> metadata.strategy])],
         result |-> [count |-> count, remaining |-> DAILY_LIMIT - count,
                     percentage |-> percentageOf(count),
                     warning |-> count >= WARNING_THRESHOLD]]

getCurrentUsage(usage, day) ==
    LET rolled == rolledOver(usage, day)
    IN  [usage |-> rolled,
         result |-> [date |-> rolled.date, count |-> rolled.count,
                     remaining |-> DAILY_LIMIT - rolled.count,
                     percentage |-> percentageOf(rolled.count),
                     limit |-> DAILY_LIMIT]]

\* the limit counted as still free: usage.remaining >= 0
canMakeRequestAtLimit(usage, day) ==
    LET current == getCurrentUsage(usage, day)
    IN  [usage |-> current.usage, result |-> current.result.remaining >= 0]

canMakeRequest(usage, day) ==
    LET current == getCurrentUsage(usage, day)
    IN  [usage |-> current.usage, result |-> current.result.remaining > 0]

getRequestHistory(usage, day) ==
    [usage |-> usage, result |-> IF day # usage.date THEN <<>> ELSE usage.requests]

resetUsage(usage, day) == [usage |-> freshUsage(day), result |-> <<>>]

-----------------------------------------------------------------------------
(* Tracker harness: a few operations on the tracker, from its state at the *)
(* start of the process or after a number of earlier requests              *)

MaxOps == 4

MaxDay == 1

EndpointEverything == <<"e","v","e","r","y","t","h","i","n","g">>

\* 'top-headlines'
EndpointTopHeadlines == <<"t","o","p","-","h","e","a","d","l","i","n","e","s">>

\* no metadata
NoMetadata == [query |-> <<>>, strategy |-> <<>>]

\* { query: 'technology', strategy: 'homepage' }
HomepageMetadata ==
    [query |-> <<"t","e","c","h","n","o","l","o","g","y">>,
     strategy |-> <<"h","o","m","e","p","a","g","e">>]

\* the calls of trackAPIRequest the harness makes
TrackerRequests ==
    {<<EndpointEverything, NoMetadata>>, <<EndpointTopHeadlines, HomepageMetadata>>}

\* currentUsage after n calls of trackAPIRequest('everything') on the day:
\* each call adds one to the count and one entry to the requests
trackedTimes(n, day) ==
    [date |-> day, count |-> n,
     requests |-> [i \in 1..n |-> [timestamp |-> day, endpoint |-> EndpointEverything,
                                   query |-> <<>>, strategy |-> <<>>]] \o <<>>]

\* the numbers of requests tracked before the harness starts: none, one
\* below the warning threshold, one below the limit
TrackedBefore == {0, WARNING_THRESHOLD - 1, DAILY_LIMIT - 1}

InitTracker ==
    /\ today = 0
    /\ \E n \in TrackedBefore :
           /\ currentUsage = <<trackedTimes(n, 0)>>
           /\ callsToday = n
    /\ reported = <<>>
    /\ opsDone = 0
    /\ IdleDedup
    /\ IdleScore
    /\ IdlePipe
    /\ IdleCat
    /\ IdleLookup
    /\ IdleAdvanced
    /\ IdleFetch
    /\ IdleParallel

\* what an operation leaves of the harness
TrackerCalled(name, outcome) ==
    /\ opsDone < MaxOps
    /\ opsDone' = opsDone + 1
    /\ currentUsage' = <<outcome.usage>>
    /\ reported' = <<[op |-> name, value |-> outcome.result]>>
    /\ UNCHANGED today
    /\ UNCHANGED <<dedupVars, scoreVars, pipeVars, catVars, lookupVars>>
    /\ UNCHANGED <<advVars, fetchVars, parallelVars>>

TrackAPIRequest ==
    \E request \in TrackerRequests :
        /\ TrackerCalled("trackAPIRequest",
                         trackAPIRequest(currentUsage[1], today, request[1], request[2]))
        /\ callsToday' = callsToday + 1

GetCurrentUsage ==
    /\ TrackerCalled("getCurrentUsage", getCurrentUsage(currentUsage[1], today))
    /\ UNCHANGED callsToday

CanMakeRequest ==
    /\ TrackerCalled("canMakeRequest", canMakeRequest(currentUsage[1], today))
    /\ UNCHANGED callsToday

GetRequestHistory ==
    /\ TrackerCalled("getRequestHistory", getRequestHistory(currentUsage[1], today))
    /\ UNCHANGED callsToday

ResetUsage ==
    /\ TrackerCalled("resetUsage", resetUsage(currentUsage[1], today))
    /\ callsToday' = 0

\* midnight passes: no request was made on the new day yet
NextDay ==
    /\ today < MaxDay
    /\ today' = today + 1
    /\ callsToday' = 0
    /\ UNCHANGED <<currentUsage, reported, opsDone>>
    /\ UNCHANGED <<dedupVars, scoreVars, pipeVars, catVars, lookupVars>>
    /\ UNCHANGED <<advVars, fetchVars, parallelVars>>

NextTracker ==
    \/ TrackAPIRequest
    \/ GetCurrentUsage
    \/ CanMakeRequest
    \/ GetRequestHistory
    \/ ResetUsage
    \/ NextDay

SpecTracker == InitTracker /\ [][NextTracker]_vars

-----------------------------------------------------------------------------
(* lib/api.ts: fetchArticles, buildFetchConfig, generateMockArticles and   *)
(* fetchFromNewsAPI.  A call of fetchArticles runs without interruption    *)
(* from its first statement to the await of fetch, and again from the      *)
(* answer of fetch to its return: the two steps of the model.  The options *)
(* are <<>> or <<record>>, a field that is not given is <<>>.              *)

DefaultPageSize == 100

StatusTooManyRequests == 429

twoDigits(n) == <<DigitSeq[((n \div 10) % 10) + 1], DigitSeq[(n % 10) + 1]>>

threeDigits(n) == <<DigitSeq[((n \div 100) % 10) + 1]>> \o twoDigits(n % 100)

\* Date.prototype.toISOString of a time of January 2024
toISOString(ms) ==
    <<"2","0","2","4","-","0","1","-">> \o twoDigits(ms \div (24 * HourMs) + 1)
    \o <<"T">> \o twoDigits((ms \div HourMs) % 24)
    \o <<":">> \o twoDigits((ms \div 60000) % 60)
    \o <<":">> \o twoDigits((ms \div 1000) % 60)
    \o <<".">> \o threeDigits(ms % 1000) \o <<"Z">>

\* the decimal text of a natural number, as a template literal writes it
RECURSIVE numberToString(_)
numberToString(n) ==
    IF n < 10 THEN <<DigitSeq[n + 1]>>
    ELSE numberToString(n \div 10) \o <<DigitSeq[(n % 10) + 1]>>

\* a value that was thrown
thrown(message) == [threw |-> TRUE, error |-> message, value |-> <<>>]

\* a value that was returned
returned(value) == [threw |-> FALSE, error |-> <<>>, value |-> value]

\* options?.pageSize || 100
pageSizeOf(opts) ==
    IF opts = <<>> \/ opts[1].pageSize = <<>> \/ opts[1].pageSize[1] = 0
    THEN DefaultPageSize
    ELSE opts[1].pageSize[1]

\* 'Category is required for category strategy'
CategoryRequired == <<"C","a","t","e","g","o","r","y"," ","i","s"," ","r","e","q","u","i","r","e","d"," ","f","o","r"," ","c","a","t","e","g","o","r","y"," ","s","t","r","a","t","e","g","y">>

\* 'Search query is required for search strategy'
SearchQueryRequired == <<"S","e","a","r","c","h"," ","q","u","e","r","y"," ","i","s"," ","r","e","q","u","i","r","e","d"," ","f","o","r"," ","s","e","a","r","c","h"," ","s","t","r","a","t","e","g","y">>

\* 'Unknown strategy: '
UnknownStrategy == <<"U","n","k","n","o","w","n"," ","s","t","r","a","t","e","g","y",":"," ">>

SortByPopularity == <<"p","o","p","u","l","a","r","i","t","y">>

SortByPublishedAt == <<"p","u","b","l","i","s","h","e","d","A","t">>

SortByRelevancy == <<"r","e","l","e","v","a","n","c","y">>

StrategyHomepage == <<"h","o","m","e","p","a","g","e">>

StrategyCategory == <<"c","a","t","e","g","o","r","y">>

StrategySearch == <<"s","e","a","r","c","h">>

\* rotating is the query buildRotatingQuery() draws; the fields of the
\* configuration that only go into the URL are left out
buildFetchConfig(strategy, opts, rotating) ==
    IF strategy = StrategyHomepage
    THEN returned([query |-> IF opts # <<>> /\ opts[1].homepageQuery # <<>>
                             THEN opts[1].homepageQuery ELSE rotating,
                   sortBy |-> SortByPopularity,
                   pageSize |-> pageSizeOf(opts)])
    ELSE IF strategy = StrategyCategory
    THEN IF opts = <<>> \/ opts[1].category = <<>>
         THEN thrown(CategoryRequired)
         ELSE returned([query |-> join(opts[1].category[1].queries, <<" ","O","R"," ">>),
                        sortBy |-> SortByPublishedAt,
                        pageSize |-> pageSizeOf(opts)])
    ELSE IF strategy = StrategySearch
    THEN IF opts = <<>> \/ opts[1].searchQuery = <<>>
         THEN thrown(SearchQueryRequired)
         ELSE returned([query |-> opts[1].searchQuery,
                        sortBy |-> SortByRelevancy,
                        pageSize |-> pageSizeOf(opts)])
    ELSE thrown(UnknownStrategy \o strategy)

MockCategories ==
    <<<<"T","e","c","h","n","o","l","o","g","y">>,
      <<"S","c","i","e","n","c","e">>,
      <<"P","o","l","i","t","i","c","s">>,
      <<"B","u","s","i","n","e","s","s">>,
      <<"E","n","t","e","r","t","a","i","n","m","e","n","t">>,
      <<"S","p","o","r","t","s">>,
      <<"H","e","a","l","t","h">>>>

MockSources ==
    <<<<"T","e","c","h","C","r","u","n","c","h">>,
      <<"T","h","e"," ","V","e","r","g","e">>,
      <<"R","e","u","t","e","r","s">>,
      <<"B","B","C"," ","N","e","w","s">>,
      <<"C","N","N">>,
      <<"T","h","e"," ","N","e","w"," ","Y","o","r","k"," ","T","i","m","e","s">>>>

\* 'https://images.unsplash.com/'
Unsplash == <<"h","t","t","p","s",":","/","/","i","m","a","g","e","s",".","u","n","s","p","l","a","s","h",".","c","o","m","/">>

\* '?w=800&h=600&fit=crop'
UnsplashCrop == <<"?","w","=","8","0","0","&","h","=","6","0","0","&","f","i","t","=","c","r","o","p">>

MockImages ==
    <<Unsplash \o <<"p","h","o","t","o","-","1","5","1","8","7","7","0","6","6","0","4","3","9","-","4","6","3","6","1","9","0","a","f","4","7","5">> \o UnsplashCrop,
      Unsplash \o <<"p","h","o","t","o","-","1","5","0","7","4","1","3","2","4","5","1","6","4","-","6","1","6","0","d","8","2","9","8","b","3","1">> \o UnsplashCrop,
      Unsplash \o <<"p","h","o","t","o","-","1","5","2","9","1","0","7","3","8","6","3","1","5","-","e","1","a","2","e","d","4","8","a","6","2","0">> \o UnsplashCrop,
      Unsplash \o <<"p","h","o","t","o","-","1","4","5","4","1","6","5","8","0","4","6","0","6","-","c","3","d","5","7","b","c","8","6","b","4","0">> \o UnsplashCrop,
      Unsplash \o <<"p","h","o","t","o","-","1","4","7","8","7","2","0","5","6","8","4","7","7","-","1","5","2","d","9","b","1","6","4","e","2","6">> \o UnsplashCrop,
      Unsplash \o <<"p","h","o","t","o","-","1","4","6","1","8","9","6","8","3","6","9","3","4","-","f","f","e","6","0","7","b","a","8","2","1","1">> \o UnsplashCrop,
      Unsplash \o <<"p","h","o","t","o","-","1","5","0","5","7","5","1","1","7","2","8","7","6","-","f","a","1","9","2","3","c","5","c","5","2","8">> \o UnsplashCrop>>

\* the article of index i (from 0); random is Math.random() * 24 * 60 * 60 * 1000
\* as whole milliseconds; the content field, which nothing reads, is left out
mockArticle(i, now, random) ==
    LET category == MockCategories[(i % Len(MockCategories)) + 1]
    IN  [source |-> [name |-> MockSources[(i % Len(MockSources)) + 1]],
         title |-> category \o <<" ","N","e","w","s",":"," ","S","a","m","p","l","e"," ","A","r","t","i","c","l","e"," ">> \o numberToString(i + 1),
         description |-> <<"T","h","i","s"," ","i","s"," ","a"," ","s","a","m","p","l","e"," ","a","r","t","i","c","l","e"," ","a","b","o","u","t"," ">> \o toLowerCase(category)
                         \o <<"."," ","T","h","e"," ","A","P","I"," ","h","a","s"," ","b","e","e","n"," ","r","a","t","e","-","l","i","m","i","t","e","d",","," ","s","o"," ","t","h","i","s"," ","m","o","c","k"," ","d","a","t","a"," ","i","s"," ","b","e","i","n","g"," ","s","h","o","w","n"," ","f","o","r"," ","d","e","v","e","l","o","p","m","e","n","t"," ","p","u","r","p","o","s","e","s","."," ","T","h","i","s"," ","a","r","t","i","c","l","e"," ","c","o","n","t","a","i","n","s"," ","i","n","t","e","r","e","s","t","i","n","g"," ","i","n","f","o","r","m","a","t","i","o","n"," ","a","b","o","u","t"," ","c","u","r","r","e","n","t"," ","e","v","e","n","t","s"," ","i","n"," ","t","h","e"," ">>
                         \o toLowerCase(category) \o <<" ","s","e","c","t","o","r",".">>,
         url |-> <<"h","t","t","p","s",":","/","/","e","x","a","m","p","l","e",".","c","o","m","/","a","r","t","i","c","l","e","-">> \o numberToString(i + 1),
         urlToImage |-> MockImages[(i % Len(MockImages)) + 1],
         publishedAt |-> toISOString(now - random)]

\* randoms holds one draw for each article
generateMockArticles(count, now, randoms) ==
    [i \in 1..count |-> mockArticle(i - 1, now, randoms[i])] \o <<>>

\* '[Removed]'
Removed == <<"[","R","e","m","o","v","e","d","]">>

\* 'Failed to fetch articles: '
FailedToFetch == <<"F","a","i","l","e","d"," ","t","o"," ","f","e","t","c","h"," ","a","r","t","i","c","l","e","s",":"," ">>

\* 'NEWS_API_KEY is not defined in environment variables'
KeyNotDefined == <<"N","E","W","S","_","A","P","I","_","K","E","Y"," ","i","s"," ","n","o","t"," ","d","e","f","i","n","e","d"," ","i","n"," ","e","n","v","i","r","o","n","m","e","n","t"," ","v","a","r","i","a","b","l","e","s">>

\* the filter of the articles of an answer
isValidArticle(article) ==
    /\ article.title # <<>>
    /\ article.description # <<>>
    /\ ~includes(article.title, Removed)
    /\ ~includes(article.description, Removed)
    /\ article.title # Removed
    /\ article.description # Removed

\* the try block of fetchFromNewsAPI from the answer of fetch on.  A
\* response is [ok, status, statusText, articles, failure]: failure is the
\* error fetch rejected with, articles is <<>> when the body has none
tryBlock(response, config, now, randoms) ==
    IF response.failure # <<>> THEN thrown(response.failure[1])
    ELSE IF ~response.ok
    THEN IF response.status = StatusTooManyRequests
         THEN returned(generateMockArticles(config.pageSize, now, randoms))
         ELSE thrown(FailedToFetch \o response.statusText)
    ELSE IF response.articles = <<>> THEN returned(<<>>)
    ELSE returned(SelectSeq(response.articles[1], isValidArticle))

\* fetchFromNewsAPI from the answer of fetch on, with its catch block
fetchFromNewsAPI(response, config, now, randoms) ==
    LET tried == tryBlock(response, config, now, randoms)
    IN  IF tried.threw
        THEN returned(generateMockArticles(config.pageSize, now, randoms))
        ELSE tried

\* the promise of fetchArticles when it is settled
resolved(list) == [kind |-> "resolved", articles |-> list, error |-> <<>>]

rejected(error) == [kind |-> "rejected", articles |-> <<>>, error |-> error]

\* fetchArticles up to the await of fetch: the usage it leaves, whether the
\* request was issued, the configuration it keeps and, when the call ends
\* before any request, the settled promise
fetchArticles(environment, usage, day, strategy, opts, rotating, now, randoms) ==
    LET allowed == canMakeRequest(usage, day)
        built == buildFetchConfig(strategy, opts, rotating)
    IN  IF environment.NEWS_API_KEY = <<>>
        THEN [usage |-> usage, issued |-> FALSE, config |-> <<>>,
              settled |-> <<rejected(KeyNotDefined)>>]
        ELSE IF ~allowed.result
        THEN [usage |-> allowed.usage, issued |-> FALSE, config |-> <<>>,
              settled |-> <<resolved(<<>>)>>]
        ELSE IF built.threw
        THEN [usage |-> allowed.usage, issued |-> FALSE, config |-> <<>>,
              settled |-> <<rejected(built.error)>>]
        ELSE IF environment.USE_MOCK_DATA = <<"t","r","u","e">>
        THEN [usage |-> allowed.usage, issued |-> FALSE, config |-> <<>>,
              settled |-> <<resolved(processArticles(
                                generateMockArticles(built.value.pageSize, now, randoms),
                                opts, now))>>]
        ELSE [usage |-> trackAPIRequest(allowed.usage, day, EndpointEverything,
                                        [query |-> built.value.query,
                                         strategy |-> built.value.sortBy]).usage,
              issued |-> TRUE, config |-> <<built.value>>, settled |-> <<>>]

\* fetchArticles from the answer of fetch to its return
fetchArticlesResumed(response, config, opts, now, randoms) ==
    LET fetched == fetchFromNewsAPI(response, config, now, randoms)
    IN  IF fetched.threw THEN rejected(fetched.error)
        ELSE resolved(processArticles(fetched.value, opts, now))

-----------------------------------------------------------------------------
(* Fetch harness: calls of fetchArticles that overlap, each answered by the *)
(* provider in one of the ways of lib/__tests__/api.test.ts.  A slot holds  *)
(* one call; the promise that settled last is kept in reported.             *)

MaxCalls == 2

\* what the clock reads during the calls
FetchClock == dateGetTime(ClockText)[1]

\* 'test-api-key-12345'
TestApiKey == <<"t","e","s","t","-","a","p","i","-","k","e","y","-","1","2","3","4","5">>

environmentOf(key, mock) == [NEWS_API_KEY |-> key, USE_MOCK_DATA |-> mock]

TestEnvironment == environmentOf(TestApiKey, <<>>)

fetchOptions(category, searchQuery, homepageQuery, pageSize) ==
    [category |-> category, searchQuery |-> searchQuery,
     homepageQuery |-> homepageQuery, pageSize |-> pageSize]

\* the Technology category with the last two of its queries
TechnologyCategory ==
    [name |-> <<"T","e","c","h","n","o","l","o","g","y">>,
     queries |-> <<<<"s","t","a","r","t","u","p"," ","O","R"," ","i","n","n","o","v","a","t","i","o","n"," ","O","R"," ","t","e","c","h"," ","c","o","m","p","a","n","y">>,
                   <<"a","p","p"," ","O","R"," ","p","l","a","t","f","o","r","m"," ","O","R"," ","d","i","g","i","t","a","l"," ","O","R"," ","g","a","d","g","e","t">>>>]

\* the calls the harness makes: one of each strategy with a page of one
\* article, and a category call without its category
FetchRequests ==
    {<<StrategyHomepage, <<fetchOptions(<<>>, <<>>, <<>>, <<1>>)>>>>,
     <<StrategyCategory, <<fetchOptions(<<TechnologyCategory>>, <<>>, <<>>, <<1>>)>>>>,
     <<StrategySearch, <<fetchOptions(<<>>, <<"a","i">>, <<>>, <<1>>)>>>>,
     <<StrategyCategory, <<>>>>}

\* two of the queries buildRotatingQuery() can draw
RotatingQueries ==
    {<<"c","r","i","s","i","s"," ","O","R"," ","e","m","e","r","g","e","n","c","y"," ","O","R"," ","o","u","t","b","r","e","a","k">>,
     <<"s","t","u","d","y"," ","O","R"," ","r","e","s","e","a","r","c","h"," ","O","R"," ","s","c","i","e","n","t","i","s","t"," ","O","R"," ","s","c","i","e","n","t","i","s","t","s">>}

\* Math.random() * 24 * 60 * 60 * 1000 for the one article of a page: a
\* second, or an hour short of the day
MockDraws == {<<1000>>, <<23 * HourMs>>}

responseOf(ok, status, statusText, list, failure) ==
    [ok |-> ok, status |-> status, statusText |-> statusText,
     articles |-> list, failure |-> failure]

\* the answers of the provider: a list with one article and one removed
\* article, a body without articles, two error statuses, a failed request
Responses ==
    {responseOf(TRUE, 200, <<"O","K">>,
                <<<<RawPool[2],
                    rawArticleOf(Removed, Removed, <<>>, <<>>, ClockText,
                                 SourceTechCrunch)>>>>, <<>>),
     responseOf(TRUE, 200, <<"O","K">>, <<>>, <<>>),
     responseOf(FALSE, 500, <<"I","n","t","e","r","n","a","l"," ","S","e","r","v","e","r"," ","E","r","r","o","r">>, <<>>, <<>>),
     responseOf(FALSE, StatusTooManyRequests, <<"T","o","o"," ","M","a","n","y"," ","R","e","q","u","e","s","t","s">>, <<>>, <<>>),
     responseOf(FALSE, 0, <<>>, <<>>, <<<<"N","e","t","w","o","r","k"," ","e","r","r","o","r">>>>)}

\* currentUsage after n calls of fetchArticles('search', { searchQuery: 'ai' })
\* were answered on the day
fetchedTimes(n, day) ==
    [date |-> day, count |-> n,
     requests |-> [i \in 1..n |-> [timestamp |-> day, endpoint |-> EndpointEverything,
                                   query |-> <<"a","i">>, strategy |-> SortByRelevancy]] \o <<>>]

\* the environments and the numbers of earlier requests the harness starts from
FetchStarts ==
    {<<TestEnvironment, 0>>,
     <<TestEnvironment, DAILY_LIMIT - 1>>,
     <<environmentOf(<<>>, <<>>), 0>>,
     <<environmentOf(TestApiKey, <<"t","r","u","e">>), 0>>}

idleCall == [pc |-> "idle", strategy |-> <<>>, options |-> <<>>, config |-> <<>>]

InitFetch ==
    /\ today = 0
    /\ \E start \in FetchStarts :
           /\ env = <<start[1]>>
           /\ currentUsage = <<fetchedTimes(start[2], 0)>>
           /\ callsToday = start[2]
    /\ calls = [c \in 1..MaxCalls |-> idleCall]
    /\ upstream = 0
    /\ reported = <<>>
    /\ opsDone = 0
    /\ IdleDedup
    /\ IdleScore
    /\ IdlePipe
    /\ IdleCat
    /\ IdleLookup
    /\ IdleAdvanced
    /\ IdleParallel

\* the promise of call c settles
settle(c, strategy, opts, response, result) ==
    reported' = <<[call |-> c, strategy |-> strategy, options |-> opts,
                   response |-> response, result |-> result]>>

\* a call of fetchArticles runs up to its await, or to its end when it
\* makes no request; the slots are taken in order
FetchArticles ==
    \E c \in 1..MaxCalls, request \in FetchRequests,
       rotating \in RotatingQueries, randoms \in MockDraws :
        /\ calls[c].pc = "idle"
        /\ \A b \in 1..(c - 1) : calls[b].pc # "idle"
        /\ LET step == fetchArticles(env[1], currentUsage[1], today, request[1],
                                     request[2], rotating, FetchClock, randoms)
           IN  /\ currentUsage' = <<step.usage>>
               /\ IF step.issued
                  THEN /\ upstream' = upstream + 1
                       /\ callsToday' = callsToday + 1
                       /\ calls' = [calls EXCEPT ![c] =
                                        [pc |-> "awaiting", strategy |-> request[1],
                                         options |-> request[2], config |-> step.config]]
                       /\ UNCHANGED reported
                  ELSE /\ calls' = [calls EXCEPT ![c] = [idleCall EXCEPT !.pc = "done"]]
                       /\ settle(c, request[1], request[2], <<>>, step.settled[1])
                       /\ UNCHANGED <<upstream, callsToday>>
        /\ UNCHANGED <<env, today, opsDone>>
        /\ UNCHANGED <<dedupVars, scoreVars, pipeVars, catVars, lookupVars>>
        /\ UNCHANGED <<advVars, parallelVars>>

\* the configurations the calls of the harness are started with, each with
\* the options of its call
StartedWith ==
    {<<buildFetchConfig(request[1], request[2], rotating).value, request[2]>> :
        request \in {r \in FetchRequests : ~buildFetchConfig(r[1], r[2], <<>>).threw},
        rotating \in RotatingQueries}

\* what fetchArticles returns after each answer, for each call the harness
\* starts and each draw of the mock articles
Resumptions ==
    {[config |-> started[1], options |-> started[2], response |-> response,
      result |-> fetchArticlesResumed(response, started[1], started[2],
                                      FetchClock, randoms)] :
        started \in StartedWith, response \in Responses, randoms \in MockDraws}

\* the provider answers the request of a call, and the call runs to its end
Respond ==
    \E c \in 1..MaxCalls, resumed \in Resumptions :
        /\ calls[c].pc = "awaiting"
        /\ resumed.config = calls[c].config[1]
        /\ resumed.options = calls[c].options
        /\ calls' = [calls EXCEPT ![c] = [idleCall EXCEPT !.pc = "done"]]
        /\ settle(c, calls[c].strategy, calls[c].options, <<resumed.response>>,
                  resumed.result)
        /\ UNCHANGED <<env, upstream, currentUsage, today, callsToday, opsDone>>
        /\ UNCHANGED <<dedupVars, scoreVars, pipeVars, catVars, lookupVars>>
        /\ UNCHANGED <<advVars, parallelVars>>

NextFetch == FetchArticles \/ Respond \/ NextDay

SpecFetch == InitFetch /\ [][NextFetch]_vars

-----------------------------------------------------------------------------
(* Two invocations of processArticles whose stages overlap.  The function   *)
(* is synchronous, so the event loop runs one invocation after the other; a *)
(* host with threads can interleave them between any two statements, and    *)
(* the model lets it, stage by stage.  Each invocation has its arguments    *)
(* and its locals; meanwhile the fetch collaborator of another request may  *)
(* count a request in currentUsage.                                         *)

\* an invocation before its first stage
invocationOf(raw, opts) ==
    [pc |-> "scoring", rawArticles |-> raw, options |-> opts,
     scored |-> <<>>, deduplicated |-> <<>>, articles |-> <<>>]

\* one buffer for the scored articles of all invocations: the list the
\* first invocation scored, once there is one
scoredOfShared(invs, k) ==
    IF invs[1].pc # "scoring" THEN invs[1].scored ELSE invs[k].scored

\* the local scored of invocation k
scoredOf(invs, k) == invs[k].scored

\* the batches of the invocations: two sources, one story from two
\* sources, one old article
ParallelBatches ==
    {<<RawPool[1], RawPool[2]>>, <<RawPool[4], RawPool[5]>>, <<RawPool[3]>>}

\* the arguments of an invocation
ParallelInputs ==
    (ParallelBatches \X {<<>>})
        \cup {<<<<RawPool[4], RawPool[5]>>, <<[category |-> <<CATEGORIES[2]>>]>>>>}

InitParallel ==
    /\ \E a \in ParallelInputs, b \in ParallelInputs :
           invocations = <<invocationOf(a[1], a[2]), invocationOf(b[1], b[2])>>
    /\ currentUsage = <<freshUsage(0)>>
    /\ today = 0
    /\ callsToday = 0
    /\ reported = <<>>
    /\ opsDone = 0
    /\ IdleDedup
    /\ IdleScore
    /\ IdlePipe
    /\ IdleCat
    /\ IdleLookup
    /\ IdleAdvanced
    /\ IdleFetch

\* a stage of invocation k writes the locals of that invocation
StageDone(k, next) ==
    /\ invocations' = [invocations EXCEPT ![k] = next]
    /\ UNCHANGED <<dedupVars, scoreVars, pipeVars, catVars, lookupVars>>
    /\ UNCHANGED <<advVars, trackerVars, fetchVars>>

\* 1. Score each article
ScoreStage ==
    \E k \in DOMAIN invocations :
        /\ invocations[k].pc = "scoring"
        /\ StageDone(k, [invocations[k] EXCEPT
               !.pc = "deduplicating",
               !.scored = [i \in 1..Len(invocations[k].rawArticles) |->
                              scoreRawArticle(invocations[k].rawArticles[i], FetchClock)]
                          \o <<>>])

\* 2. Deduplicate
DeduplicateStage ==
    \E k \in DOMAIN invocations :
        /\ invocations[k].pc = "deduplicating"
        /\ StageDone(k, [invocations[k] EXCEPT
               !.pc = "sorting",
               !.deduplicated = deduplicateArticles(scoredOf(invocations, k))])

\* 3. Sort by score
SortStage ==
    \E k \in DOMAIN invocations :
        /\ invocations[k].pc = "sorting"
        /\ StageDone(k, [invocations[k] EXCEPT
               !.pc = "transforming",
               !.deduplicated = sortByScoreDesc(invocations[k].deduplicated)])

\* 4. Categorize and transform to Article type, and return
TransformStage ==
    \E k \in DOMAIN invocations :
        /\ invocations[k].pc = "transforming"
        /\ StageDone(k, [invocations[k] EXCEPT
               !.pc = "returned",
               !.articles = [i \in 1..Len(invocations[k].deduplicated) |->
                                toArticle(invocations[k].deduplicated[i], i - 1,
                                          invocations[k].options)] \o <<>>])

\* the fetch collaborator of another request counts a request
TrackMeanwhile ==
    /\ opsDone < MaxOps
    /\ opsDone' = opsDone + 1
    /\ currentUsage' = <<trackAPIRequest(currentUsage[1], today, EndpointEverything,
                                         NoMetadata).usage>>
    /\ callsToday' = callsToday + 1
    /\ UNCHANGED <<today, reported>>
    /\ UNCHANGED <<dedupVars, scoreVars, pipeVars, catVars, lookupVars>>
    /\ UNCHANGED <<advVars, fetchVars, parallelVars>>

NextParallel ==
    \/ ScoreStage
    \/ DeduplicateStage
    \/ SortStage
    \/ TransformStage
    \/ TrackMeanwhile

SpecParallel == InitParallel /\ [][NextParallel]_vars

-----------------------------------------------------------------------------
(* The duplicate criteria as the specification words them, computed on the  *)
(* words of a title rather than through normalizeTitle and areDuplicates.   *)

ClaimMaxWords == 8

\* the title in lower case without the characters that are not a-z, 0-9 or white space
ClaimCleaned(title) ==
    LET lower == [i \in 1..Len(title) |->
                     IF title[i] \in UpperChars
                     THEN LowerAlpha[CHOOSE k \in 1..26 : UpperAlpha[k] = title[i]]
                     ELSE title[i]]
        keep  == {i \in 1..Len(lower) : lower[i] \in LowerChars \cup DigitChars \cup WhiteSpace}
    IN  [n \in 1..Cardinality(keep) |->
            lower[CHOOSE i \in keep : Cardinality({j \in keep : j < i}) = n - 1]]

\* its first eight words: the maximal runs of characters that are not white space
ClaimWords(title) ==
    LET c      == ClaimCleaned(title)
        starts == {i \in 1..Len(c) : c[i] \notin WhiteSpace /\ (i = 1 \/ c[i-1] \in WhiteSpace)}
        endOf(i) == CHOOSE j \in i..Len(c) :
                        /\ \A m \in i..j : c[m] \notin WhiteSpace
                        /\ (j = Len(c) \/ c[j+1] \in WhiteSpace)
        nth(n) == CHOOSE i \in starts : Cardinality({j \in starts : j < i}) = n - 1
        count  == IF Cardinality(starts) < ClaimMaxWords THEN Cardinality(starts) ELSE ClaimMaxWords
    IN  [n \in 1..count |-> SubSeq(c, nth(n), endOf(nth(n)))]

\* the words joined by single blanks: the normalized title
RECURSIVE ClaimJoined(_)
ClaimJoined(words) ==
    IF Len(words) = 0 THEN <<>>
    ELSE IF Len(words) = 1 THEN words[1]
    ELSE words[1] \o <<" ">> \o ClaimJoined(Tail(words))

ClaimIsSubstring(sub, s) ==
    \E i \in 1..(Len(s) - Len(sub) + 1) : \A k \in 1..Len(sub) : s[i + k - 1] = sub[k]

ClaimDuplicates(title1, title2) ==
    LET w1 == ClaimWords(title1)
        w2 == ClaimWords(title2)
        n1 == ClaimJoined(w1)
        n2 == ClaimJoined(w2)
        W1 == {w1[i] : i \in 1..Len(w1)}
        W2 == {w2[i] : i \in 1..Len(w2)}
    IN  \/ n1 = n2
        \/ /\ W1 \cup W2 # {}
           /\ 10 * Cardinality(W1 \cap W2) >= 8 * Cardinality(W1 \cup W2)
        \/ ClaimIsSubstring(n1, n2) /\ Len(w1) >= 5
        \/ ClaimIsSubstring(n2, n1) /\ Len(w2) >= 5

Count(seq, a) == Cardinality({i \in 1..Len(seq) : seq[i] = a})

\* the two lists hold the same articles, each as often
SameArticles(s, t) == \A a \in Range(s) \cup Range(t) : Count(s, a) = Count(t, a)

SortedByTotalDesc(seq) ==
    \A i \in 1..(Len(seq) - 1) : seq[i].score.total >= seq[i + 1].score.total

-----------------------------------------------------------------------------
(* Properties of deduplicateArticles, checked under SpecDedup *)

NoDuplicatePair(seq) ==
    \A i, j \in 1..Len(seq) : i < j => ~ClaimDuplicates(seq[i].title, seq[j].title)

\* C2: deduplicateArticles returns only articles of its input, each at most as
\* often as the input holds it (so no more articles than the input, and none
\* for an empty input); every input article it leaves out is a duplicate, by
\* the title criteria, of a returned article whose total is at least its own;
\* and an input without a duplicate pair is returned whole.
C2_OnlyDuplicatesDropped ==
    unique # <<>> =>
        LET out == unique[1]
        IN  /\ \A k \in 1..Len(out) : Count(out, out[k]) <= Count(articles, out[k])
            /\ Len(out) <= Len(articles)
            /\ (Len(articles) = 0 => out = <<>>)
            /\ \A i \in 1..Len(articles) :
                   Count(out, articles[i]) < Count(articles, articles[i]) =>
                       \E k \in 1..Len(out) :
                           /\ ClaimDuplicates(out[k].title, articles[i].title)
                           /\ out[k].score.total >= articles[i].score.total
            /\ (NoDuplicatePair(articles) => SameArticles(out, articles))

\* a batch of three from which one duplicate was dropped and two articles kept
C2_Witness ==
    /\ unique # <<>>
    /\ Len(articles) = 3
    /\ Len(unique[1]) = 2
    /\ ~NoDuplicatePair(articles)

\* C3: deduplicating the result of deduplicateArticles once more returns the
\* same articles.
C3_Idempotent ==
    uniqueAgain # <<>> => SameArticles(uniqueAgain[1], unique[1])

\* three articles of equal total whose duplicate relation is not transitive,
\* deduplicated twice
C3_Witness ==
    /\ uniqueAgain # <<>>
    /\ Len(articles) = 3
    /\ \A i \in 1..3 : articles[i].score.total = 750
    /\ articles[1].title = TitleFedCuts
    /\ articles[2].title = TitleFedCutsNow
    /\ articles[3].title = TitleCutsNow
    /\ Len(uniqueAgain[1]) = 2

\* C4: the result of deduplicateArticles is in non-increasing order of total.
C4_SortedDescending ==
    unique # <<>> => SortedByTotalDesc(unique[1])

\* an input in increasing order of total, all three articles kept
C4_Witness ==
    /\ unique # <<>>
    /\ Len(articles) = 3
    /\ articles[1].score.total < articles[2].score.total
    /\ articles[2].score.total < articles[3].score.total
    /\ Len(unique[1]) = 2
    /\ unique[1][1].score.total > unique[1][2].score.total

\* C5: of every group deduplicateArticles merges, the article kept is a member
\* with the highest total of the group, and the kept articles are the result.
C5_GroupKeepsHighest ==
    unique # <<>> =>
        /\ \A g \in 1..Len(groups) :
               /\ \E m \in 1..Len(groups[g].members) :
                      groups[g].members[m] = groups[g].bestVersion
               /\ \A m \in 1..Len(groups[g].members) :
                      groups[g].bestVersion.score.total >= groups[g].members[m].score.total
        /\ SameArticles(unique[1], [g \in 1..Len(groups) |-> groups[g].bestVersion])

\* three articles with one title and totals 60, 90, 75 in this order: the
\* second one is kept
C5_Witness ==
    /\ unique # <<>>
    /\ Len(articles) = 3
    /\ \A i \in 1..3 : articles[i].title = TitleFedCuts
    /\ articles[1].score.total = 600
    /\ articles[2].score.total = 900
    /\ articles[3].score.total = 750
    /\ unique[1] = <<articles[2]>>
    /\ Len(groups) = 1 /\ Len(groups[1].members) = 3

-----------------------------------------------------------------------------
(* Order of the input, checked under SpecShuffle *)

DistinctTotals(seq) ==
    \A i, j \in 1..Len(seq) : i # j => seq[i].score.total # seq[j].score.total

\* C6 as claimed: deduplicateArticles returns the same articles for every
\* permutation of its input, equal totals included.
C6_OrderIrrelevant ==
    uniqueShuffled # <<>> => SameArticles(uniqueShuffled[1], unique[1])

\* C6 as amended: when no two articles of the input have the same total,
\* deduplicateArticles returns the same articles for every permutation of it.
C6_OrderIrrelevantDistinctTotals ==
    (uniqueShuffled # <<>> /\ DistinctTotals(articles)) =>
        SameArticles(uniqueShuffled[1], unique[1])

\* three articles with three totals and a duplicate relation that is not
\* transitive, deduplicated in another order
C6_Witness ==
    /\ uniqueShuffled # <<>>
    /\ Len(articles) = 3
    /\ DistinctTotals(articles)
    /\ {articles[i].title : i \in 1..3} = BatchTitles
    /\ shuffled[1] # articles
    /\ Len(uniqueShuffled[1]) = 2

-----------------------------------------------------------------------------
(* Which titles are duplicates, checked under SpecPair *)

\* the titles are the same but for the case of their letters
DifferOnlyInCase(t1, t2) ==
    /\ Len(t1) = Len(t2)
    /\ \A i \in 1..Len(t1) :
           \/ t1[i] = t2[i]
           \/ \E k \in 1..26 : {t1[i], t2[i]} = {LowerAlpha[k], UpperAlpha[k]}

\* the titles are the same once their punctuation marks are deleted
DifferOnlyInPunctuation(t1, t2) ==
    SelectSeq(t1, LAMBDA c : c \notin Punctuation) = SelectSeq(t2, LAMBDA c : c \notin Punctuation)

\* all the words of a title's cleaned form, in order
ClaimAllWords(title) ==
    LET c      == ClaimCleaned(title)
        starts == {i \in 1..Len(c) : c[i] \notin WhiteSpace /\ (i = 1 \/ c[i-1] \in WhiteSpace)}
        endOf(i) == CHOOSE j \in i..Len(c) :
                        /\ \A m \in i..j : c[m] \notin WhiteSpace
                        /\ (j = Len(c) \/ c[j+1] \in WhiteSpace)
        nth(n) == CHOOSE i \in starts : Cardinality({j \in starts : j < i}) = n - 1
    IN  [n \in 1..Cardinality(starts) |-> SubSeq(c, nth(n), endOf(nth(n)))]

\* both titles have more than eight words and the same first eight
DifferOnlyAfterEighthWord(t1, t2) ==
    LET w1 == ClaimAllWords(t1)
        w2 == ClaimAllWords(t2)
    IN  /\ Len(w1) > ClaimMaxWords
        /\ Len(w2) > ClaimMaxWords
        /\ SubSeq(w1, 1, ClaimMaxWords) = SubSeq(w2, 1, ClaimMaxWords)

\* C7: of two articles deduplicateArticles keeps one exactly when their titles
\* meet one of the three criteria on the normalized titles; titles that
\* differ only in letter case, in punctuation or after the eighth word do.
C7_DuplicateCriteria ==
    (unique # <<>> /\ Len(articles) = 2) =>
        LET t1 == articles[1].title
            t2 == articles[2].title
        IN  /\ Len(unique[1]) = 1 <=> ClaimDuplicates(t1, t2)
            /\ Len(unique[1]) = 2 <=> ~ClaimDuplicates(t1, t2)
            /\ DifferOnlyInCase(t1, t2) => Len(unique[1]) = 1
            /\ DifferOnlyInPunctuation(t1, t2) => Len(unique[1]) = 1
            /\ DifferOnlyAfterEighthWord(t1, t2) => Len(unique[1]) = 1

\* two titles that differ in what follows their eighth word, merged into one
C7_Witness ==
    /\ unique # <<>>
    /\ articles[1].title = TitleBattery
    /\ articles[2].title = TitleSystem
    /\ DifferOnlyAfterEighthWord(TitleBattery, TitleSystem)
    /\ Len(unique[1]) = 1

-----------------------------------------------------------------------------
(* Properties of scoreArticle, checked under SpecScore *)

\* the weighted sum of a breakdown as the specification states it, in hundredths
ClaimWeightedSum(b) ==
    30 * b.sourceAuthority + 25 * b.recency + 15 * b.imageQuality
    + 20 * b.titleQuality + 10 * b.descriptionQuality

\* C8: for every raw article and every source profile (authority 100, 80 or
\* 60, or no profile at all) the total scoreArticle returns lies in [0, 100].
C8_TotalInRange ==
    score # <<>> => score[1].total >= 0 /\ score[1].total <= 1000

\* an article without a profile, without image and description and with an
\* unparsable date has been scored
C8_Witness ==
    /\ score # <<>>
    /\ sourceConfig = <<>>
    /\ rawArticle.urlToImage = <<>>
    /\ rawArticle.description = <<>>
    /\ dateGetTime(rawArticle.publishedAt) = <<>>

\* C9: the total equals 0.30*sourceAuthority + 0.25*recency + 0.15*imageQuality
\* + 0.20*titleQuality + 0.10*descriptionQuality of the returned breakdown,
\* rounded to one decimal place, and the breakdown's sourceAuthority is the
\* profile's authorityScore, or 40 when no profile is given.
C9_WeightedTotal ==
    score # <<>> =>
        LET b == score[1].breakdown
            w == ClaimWeightedSum(b)
        IN  /\ b.sourceAuthority =
                  (IF sourceConfig = <<>> THEN 40 ELSE sourceConfig[1].authorityScore)
            /\ 10 * score[1].total - 5 <= w
            /\ w < 10 * score[1].total + 5

\* the article of the tests (tier-2 profile, recent, https image) has been
\* scored: 0.30*80 + 0.25*100 + 0.15*40 + 0.20*25 + 0.10*20 = 62.0
C9_Witness ==
    /\ score # <<>>
    /\ sourceConfig = <<mockTier2Source>>
    /\ rawArticle.title = TitleTest
    /\ rawArticle.description = DescriptionTest
    /\ rawArticle.urlToImage = ImageHttps
    /\ dateGetTime(rawArticle.publishedAt) = <<clock>>
    /\ score[1].total = 620

\* the article C10 describes: published now, https image from a CDN domain,
\* a 70-character title containing "breakthrough", tier-1 source
IsBreakthroughArticle ==
    /\ dateGetTime(rawArticle.publishedAt) = <<clock>>
    /\ startsWith(rawArticle.urlToImage, <<"h","t","t","p","s",":","/","/">>)
    /\ includes(rawArticle.urlToImage, <<"c","d","n">>)
    /\ Len(rawArticle.title) = 70
    /\ includes(toLowerCase(rawArticle.title), <<"b","r","e","a","k","t","h","r","o","u","g","h">>)
    /\ sourceConfig # <<>>
    /\ sourceConfig[1].tier = 1
    /\ sourceConfig[1].authorityScore = 100

\* C10: an article published now, with an https image from a CDN domain, a
\* 70-character title containing "breakthrough" and a tier-1 source gets a
\* total >= 80, so shouldFeatureArticle is true for it.
C10_BreakthroughFeatured ==
    (featured # <<>> /\ IsBreakthroughArticle) =>
        (score[1].total >= 800 /\ featured[1])

-----------------------------------------------------------------------------
(* Properties of processArticles, checked under Spec *)

\* the names a category can have: the configured ones and "General"
ClaimCategoryNames ==
    {<<"P","o","l","i","t","i","c","s">>, <<"T","e","c","h","n","o","l","o","g","y">>, <<"S","c","i","e","n","c","e">>, <<"E","n","t","e","r","t","a","i","n","m","e","n","t">>, <<"S","p","o","r","t","s">>, <<"H","e","a","l","t","h">>, <<"G","e","n","e","r","a","l">>}

\* C1: every article of the array processArticles returns carries one
\* category string and one integer score, and the scores are non-increasing
\* in array order.
C1_CategoryAndDescendingIntegerScores ==
    output # <<>> =>
        LET out == output[1]
        IN  /\ \A i \in 1..Len(out) :
                   /\ out[i].category \in ClaimCategoryNames
                   /\ out[i].score % 10 = 0
                   /\ out[i].score >= 0
            /\ \A i \in 1..(Len(out) - 1) : out[i].score >= out[i + 1].score

\* a batch given in increasing order of score whose two articles both come
\* out, the one with total 72.5 rounded to 73
C1_Witness ==
    /\ output # <<>>
    /\ Len(rawArticles) = 2
    /\ Len(output[1]) = 2
    /\ output[1][1].url = rawArticles[2].url
    /\ output[1][1].score > output[1][2].score
    /\ \E i \in 1..2 : scoreRawArticle(rawArticles[i], clock).score.total % 10 # 0

-----------------------------------------------------------------------------
(* C11: scoreArticle never fails on missing or malformed fields *)

\* "2024-01-06T12:00:00.000Z", 14 days before the clock of the harness
ClaimFourteenDaysAgo == <<"2","0","2","4","-","0","1","-","0","6","T","1","2",":","0","0",":","0","0",".","0","0","0","Z">>

ClaimIsScore(s) ==
    /\ s.total \in 0..1000
    /\ s.breakdown.sourceAuthority \in 0..100
    /\ s.breakdown.recency \in 0..100
    /\ s.breakdown.imageQuality \in 0..50
    /\ s.breakdown.titleQuality \in 0..50
    /\ s.breakdown.descriptionQuality \in 0..30

\* C11: scoreArticle returns a score for every article, also when its
\* description, its image URL or its source profile is missing and when its
\* publish timestamp cannot be parsed; the recency of an unparseable timestamp
\* is 10, the recency of an article that is 14 days old.
C11_ScoreAlwaysReturned ==
    score # <<>> =>
        /\ ClaimIsScore(score[1])
        /\ rawArticle.publishedAt = InvalidDateText => score[1].breakdown.recency = 10
        /\ rawArticle.publishedAt = ClaimFourteenDaysAgo => score[1].breakdown.recency = 10

\* C11 witness: an article without description and image, without a source
\* profile and with an unparseable timestamp has been scored, recency 10
C11_Witness ==
    /\ score # <<>>
    /\ rawArticle.description = <<>>
    /\ rawArticle.urlToImage = <<>>
    /\ sourceConfig = <<>>
    /\ rawArticle.publishedAt = InvalidDateText
    /\ score[1].breakdown.recency = 10
    /\ score[1].total > 0

-----------------------------------------------------------------------------
(* C12: the title-quality sub-score *)

\* the pattern occurs in the title, letters compared without their case
ClaimContains(title, pattern) ==
    \E i \in 1..(Len(title) - Len(pattern) + 1) :
        \A k \in 1..Len(pattern) : toLowerChar(title[i + k - 1]) = toLowerChar(pattern[k])

ClaimContainsAny(title, patterns) ==
    \E k \in 1..Len(patterns) : ClaimContains(title, patterns[k])

ClaimLengthBonus(n) ==
    CASE n >= 50 /\ n <= 100 -> 20
      [] n >= 30 /\ n <= 49 -> 15
      [] n >= 101 /\ n <= 150 -> 10
      [] n < 30 -> 5
      [] n > 150 -> 0

ClaimIsUpperCase(title) == \A i \in 1..Len(title) : title[i] \notin LowerChars

ClaimClamp(x, low, high) == IF x < low THEN low ELSE IF x > high THEN high ELSE x

ClaimTitleQuality(title) ==
    IF Len(title) = 0 THEN 0
    ELSE ClaimClamp(20 + ClaimLengthBonus(Len(title))
                    + (IF ClaimContainsAny(title, interestingKeywords) THEN 10 ELSE 0)
                    - (IF ClaimContainsAny(title, clickbaitPatterns) THEN 20 ELSE 0)
                    - (IF ClaimIsUpperCase(title) /\ Len(title) > 10 THEN 10 ELSE 0),
                    0, 50)

\* C12: the title quality of a non-empty title is 20 plus the length bonus,
\* plus 10 for an interesting keyword, minus 20 for a clickbait pattern, minus
\* 10 for an upper-case title longer than 10 characters, clamped to 0..50; the
\* title quality of an empty title is 0.
C12_TitleQuality ==
    score # <<>> => score[1].breakdown.titleQuality = ClaimTitleQuality(rawArticle.title)

\* C12 witness: an upper-case clickbait title of fewer than 30 characters has
\* been scored: 20 + 5 - 20 - 10 is clamped to 0
C12_Witness ==
    /\ score # <<>>
    /\ Len(rawArticle.title) \in 11..29
    /\ ClaimIsUpperCase(rawArticle.title)
    /\ ClaimContainsAny(rawArticle.title, clickbaitPatterns)
    /\ ~ ClaimContainsAny(rawArticle.title, interestingKeywords)
    /\ score[1].breakdown.titleQuality = 0

-----------------------------------------------------------------------------
(* Properties of the categorizer, checked under SpecCategorize and SpecBatch *)

\* the position of a category in the CATEGORIES list
ClaimCategoryIndex(name) == CHOOSE k \in 1..Len(CATEGORIES) : CATEGORIES[k].name = name

\* the highest score of a scores list
ClaimTopScore(scores) ==
    CHOOSE n \in {scores[k].score : k \in 1..Len(scores)} :
        \A k \in 1..Len(scores) : scores[k].score <= n

\* round(n / d) of a non-negative n
ClaimRoundDiv(n, d) == (2 * n + d) \div (2 * d)

ClaimConfidence(top) ==
    IF ClaimRoundDiv(top * 100, 20) < 100 THEN ClaimRoundDiv(top * 100, 20) ELSE 100

\* C13: assignCategoryWithConfidence always returns a result: when the
\* highest category score is at least 3, a category that has this score, with
\* confidence min(100, round(score / 20 * 100)); otherwise "General" with
\* confidence 0.  The category is a configured name or "General".
C13_CategoryOrGeneral ==
    catResults # <<>> =>
        /\ Len(catResults[1]) = Len(catArticles)
        /\ \A i \in 1..Len(catResults[1]) :
               LET r == catResults[1][i]
                   top == ClaimTopScore(r.scores)
               IN  /\ top >= 3 =>
                          /\ \E k \in 1..Len(r.scores) :
                                 r.scores[k].score = top /\ r.scores[k].category = r.category
                          /\ r.confidence = ClaimConfidence(top)
                   /\ top < 3 => r.category = CategoryGeneral /\ r.confidence = 0
                   /\ r.category \in ClaimCategoryNames

\* C13 witness: an article with empty title and description and no source
\* profile has been categorized as "General" with confidence 0
C13_Witness ==
    /\ catResults # <<>>
    /\ Len(catArticles) = 1
    /\ catArticles[1].title = <<>>
    /\ catArticles[1].description = <<>>
    /\ mapGet(catConfigs, catArticles[1].source.name) = <<>>
    /\ catResults[1][1].category = CategoryGeneral
    /\ catResults[1][1].confidence = 0

\* how many of the keywords occur in each of the texts, whatever the case
ClaimCountOccurring(keywords, texts) ==
    Cardinality({k \in 1..Len(keywords) :
                    \A t \in 1..Len(texts) : ClaimContains(texts[t], keywords[k])})

\* the score of one category, from the rule of that category alone
ClaimCategoryScore(category, article, config) ==
    LET content == article.title \o <<" ">> \o article.description
        listed == /\ config # <<>>
                  /\ \E k \in 1..Len(config[1].categories) :
                         config[1].categories[k] = category.name
    IN  (IF listed THEN 5 ELSE 0)
        + 2 * ClaimCountOccurring(category.keywords.strong, <<content>>)
        + ClaimCountOccurring(category.keywords.strong, <<content, article.title>>)
        + ClaimCountOccurring(category.keywords.weak, <<content>>)
        - 5 * ClaimCountOccurring(category.keywords.exclude, <<content>>)

ClaimScoreOf(scores, name) ==
    scores[CHOOSE k \in 1..Len(scores) : scores[k].category = name].score

\* C14: the score of every category is computed from the rule of that
\* category alone: 5 when the source profile lists the category, 2 for each
\* strong keyword that occurs in title plus description and 1 more when it
\* occurs in the title, 1 for each weak keyword, -5 for each exclude keyword.
C14_CategoryScoreRule ==
    catResults # <<>> =>
        \A i \in 1..Len(catResults[1]) : \A c \in 1..Len(CATEGORIES) :
            ClaimScoreOf(catResults[1][i].scores, CATEGORIES[c].name)
                = ClaimCategoryScore(CATEGORIES[c], catArticles[i],
                                     mapGet(catConfigs, catArticles[i].source.name))

\* C14 witness: an article whose title holds a strong keyword of Politics
\* ("political"), whose text holds exclude keywords of Politics ("game") and
\* whose source profile lists Politics has been scored: 5 + 3 - 5 = 3 for
\* Politics, and 5 for Science
C14_Witness ==
    /\ catResults # <<>>
    /\ Len(catArticles) = 1
    /\ mapGet(catConfigs, catArticles[1].source.name) = <<mockPoliticsSource>>
    /\ ClaimContains(catArticles[1].title, <<"p","o","l","i","t","i","c","a","l">>)
    /\ ClaimContains(catArticles[1].title, <<"g","a","m","e">>)
    /\ ClaimScoreOf(catResults[1][1].scores, CATEGORIES[1].name) = 3
    /\ ClaimScoreOf(catResults[1][1].scores, CATEGORIES[3].name) = 5

\* C15: the scores list holds one entry for each configured category, in
\* non-increasing order of score and, among equal scores, in the order of the
\* CATEGORIES list; when the highest score is at least 3 the category
\* returned is the first declared of the categories that have it.
C15_TiesInDeclarationOrder ==
    catResults # <<>> =>
        \A i \in 1..Len(catResults[1]) :
            LET r == catResults[1][i]
                top == ClaimTopScore(r.scores)
                best == {k \in 1..Len(CATEGORIES) :
                            ClaimScoreOf(r.scores, CATEGORIES[k].name) = top}
            IN  /\ Len(r.scores) = Len(CATEGORIES)
                /\ \A k \in 1..Len(CATEGORIES) :
                       Cardinality({j \in 1..Len(r.scores) :
                                       r.scores[j].category = CATEGORIES[k].name}) = 1
                /\ \A j \in 1..(Len(r.scores) - 1) :
                       \/ r.scores[j].score > r.scores[j + 1].score
                       \/ /\ r.scores[j].score = r.scores[j + 1].score
                          /\ ClaimCategoryIndex(r.scores[j].category)
                                 < ClaimCategoryIndex(r.scores[j + 1].category)
                /\ top >= 3 =>
                       r.category = CATEGORIES[CHOOSE k \in best : \A m \in best : k <= m].name

\* C15 witness: an article for which Entertainment and Health share the
\* highest score, 3, has been categorized as Entertainment
C15_Witness ==
    /\ catResults # <<>>
    /\ Len(catArticles) = 1
    /\ LET r == catResults[1][1]
       IN  /\ ClaimTopScore(r.scores) = 3
           /\ ClaimScoreOf(r.scores, CATEGORIES[4].name) = 3
           /\ ClaimScoreOf(r.scores, CATEGORIES[6].name) = 3
           /\ ClaimScoreOf(r.scores, CATEGORIES[1].name) < 3
           /\ r.category = CATEGORIES[4].name

\* the category of an article, from its own texts and source profile
ClaimCategoryOf(article, config) ==
    LET scoreOf == [k \in 1..Len(CATEGORIES) |->
                       ClaimCategoryScore(CATEGORIES[k], article, config)] \o <<>>
        best == {k \in 1..Len(CATEGORIES) :
                    \A m \in 1..Len(CATEGORIES) : scoreOf[m] <= scoreOf[k]}
        first == CHOOSE k \in best : \A m \in best : k <= m
    IN  IF scoreOf[first] >= 3 THEN CATEGORIES[first].name ELSE CategoryGeneral

\* C16: batchCategorize returns one category for each article of the batch,
\* and the i-th is the category of the i-th article alone: it depends on that
\* article's title, description and source profile only, and equals what
\* assignCategoryWithConfidence returns for the article outside the batch.
C16_BatchIndependent ==
    catBatch # <<>> =>
        /\ Len(catBatch[1]) = Len(catArticles)
        /\ \A i \in 1..Len(catArticles) :
               /\ catBatch[1][i] = ClaimCategoryOf(catArticles[i],
                                       mapGet(catConfigs, catArticles[i].source.name))
               /\ catResults # <<>> => catBatch[1][i] = catResults[1][i].category

\* C16 witness: a batch of an article of TechCrunch, which the Map knows,
\* followed by an article without source and text: Technology, then General,
\* from the batch and from each article alone
C16_Witness ==
    /\ catBatch # <<>>
    /\ catResults # <<>>
    /\ Len(catArticles) = 2
    /\ mapGet(catConfigs, catArticles[1].source.name) = <<mockTechSource>>
    /\ catArticles[2].source.name = <<>>
    /\ catBatch[1] = <<CATEGORIES[2].name, CategoryGeneral>>

-----------------------------------------------------------------------------
(* More properties of processArticles, checked under Spec and SpecTies *)

\* a raw article of the batch that the output article was made of
ClaimRawOf(out) ==
    rawArticles[CHOOSE k \in 1..Len(rawArticles) :
                    rawArticles[k].url = out.url /\ rawArticles[k].title = out.title]

\* C17: with a fixed category in the options every article of the output
\* carries the name of that category; without one, the category is the one
\* the keyword rules give for the article's title, description and source.
C17_FixedCategoryWins ==
    output # <<>> =>
        \A i \in 1..Len(output[1]) :
            IF options # <<>> /\ options[1].category # <<>>
            THEN output[1][i].category = options[1].category[1].name
            ELSE LET raw == ClaimRawOf(output[1][i])
                 IN  output[1][i].category
                         = ClaimCategoryOf(raw, findSourceConfig(raw.source.name))

\* C17 witness: a category fetch for Technology whose output holds the Senate
\* article, which the keyword rules alone put in Politics
C17_Witness ==
    /\ output # <<>>
    /\ options # <<>> /\ options[1].category = <<CATEGORIES[2]>>
    /\ \E i \in 1..Len(output[1]) :
           /\ output[1][i].category = CATEGORIES[2].name
           /\ ClaimCategoryOf(ClaimRawOf(output[1][i]),
                              findSourceConfig(ClaimRawOf(output[1][i]).source.name))
                  = CATEGORIES[1].name

\* C18: the ids of the output are 1, 2, ..., N in array order.
C18_ContiguousIds ==
    output # <<>> => \A i \in 1..Len(output[1]) : output[1][i].id = i

\* C18 witness: two raw articles given in increasing order of score have come
\* out in the other order with the ids 1 and 2
C18_Witness ==
    /\ output # <<>>
    /\ Len(rawArticles) = 2
    /\ Len(output[1]) = 2
    /\ output[1][1].url = rawArticles[2].url
    /\ output[1][2].url = rawArticles[1].url
    /\ output[1][1].id = 1
    /\ output[1][2].id = 2

\* the total of the raw article an output article was made of
ClaimTotalOf(out) == scoreRawArticle(ClaimRawOf(out), clock).score.total

\* C19: two articles of the output with equal totals stand in the order in
\* which the raw batch holds them.
C19_StableForTies ==
    output # <<>> =>
        \A i \in 1..Len(output[1]) : \A j \in (i + 1)..Len(output[1]) :
            ClaimTotalOf(output[1][i]) = ClaimTotalOf(output[1][j]) =>
                \E p \in 1..Len(rawArticles) : \E q \in (p + 1)..Len(rawArticles) :
                    /\ rawArticles[p].url = output[1][i].url
                    /\ rawArticles[q].url = output[1][j].url

\* C19 witness: three raw articles, the first and the last with equal totals
\* and a duplicate of the first between them, have come out as two articles
\* in the order of the batch
C19_Witness ==
    /\ output # <<>>
    /\ Len(rawArticles) = 3
    /\ Len(output[1]) = 2
    /\ areDuplicates(rawArticles[1], rawArticles[2])
    /\ output[1][1].url = rawArticles[1].url
    /\ output[1][2].url = rawArticles[3].url
    /\ ClaimTotalOf(output[1][1]) = ClaimTotalOf(output[1][2])

-----------------------------------------------------------------------------
(* C20: findSourceConfig *)

\* the positions of the profiles that the identifier q matches when the match
\* goes both ways for the domain and for the name
ClaimMatchingProfiles(q) ==
    {k \in 1..Len(QUALITY_SOURCES) :
        \/ ClaimContains(QUALITY_SOURCES[k].domain, q)
        \/ ClaimContains(QUALITY_SOURCES[k].name, q)
        \/ ClaimContains(q, QUALITY_SOURCES[k].domain)
        \/ ClaimContains(q, QUALITY_SOURCES[k].name)}

\* C20: for a non-empty q findSourceConfig returns a profile exactly when the
\* domain or the name of a configured profile contains q or q contains that
\* domain or name, whatever the case, and then the first such profile of the
\* configuration; it returns undefined for an empty or absent q and when no
\* profile matches.
C20_BidirectionalMatch ==
    sourceFound # <<>> =>
        LET hits == ClaimMatchingProfiles(sourceQuery)
        IN  IF sourceQuery = <<>> \/ hits = {}
            THEN sourceFound[1] = <<>>
            ELSE sourceFound[1]
                     = <<QUALITY_SOURCES[CHOOSE k \in hits : \A m \in hits : k <= m]>>


-----------------------------------------------------------------------------
(* Properties of deduplicateArticlesAdvanced, checked under SpecAdvanced *)

\* the value of an option: the one given, or its default
ClaimOption(given, default) == IF given = <<>> THEN default ELSE given[1]

\* the options a call works with: threshold in hundredths, words compared,
\* preferred source names
ClaimThreshold(given) == ClaimOption(given.similarityThreshold, 80)

ClaimWordCount(given) == ClaimOption(given.wordCount, ClaimMaxWords)

ClaimPreferredNames(given) == ClaimOption(given.preferredSources, <<>>)

\* the article's source name holds one of the preferred names, whatever the case
ClaimIsPreferred(article, preferred) ==
    \E k \in 1..Len(preferred) : ClaimContains(article.source.name, preferred[k])

-----------------------------------------------------------------------------
(* C25, C26: the options and the number of articles returned *)

\* the first n words of the title's cleaned form
ClaimFirstWords(title, n) ==
    LET w == ClaimAllWords(title)
    IN  SubSeq(w, 1, IF n < Len(w) THEN n ELSE Len(w))

\* the two word lists are equal, or the share of common words among all their
\* words is at least the threshold (in hundredths)
ClaimSimilarWords(w1, w2, threshold) ==
    LET W1 == {w1[i] : i \in 1..Len(w1)}
        W2 == {w2[i] : i \in 1..Len(w2)}
    IN  \/ w1 = w2
        \/ /\ W1 \cup W2 # {}
           /\ 100 * Cardinality(W1 \cap W2) >= threshold * Cardinality(W1 \cup W2)

\* on the batch, being similar at the threshold is transitive
ClaimTransitive(batch, threshold, wordCount) ==
    LET w == [i \in 1..Len(batch) |-> ClaimFirstWords(batch[i].title, wordCount)] \o <<>>
        similar == {p \in (1..Len(batch)) \X (1..Len(batch)) :
                       ClaimSimilarWords(w[p[1]], w[p[2]], threshold)}
    IN  \A i, j, k \in 1..Len(batch) :
            (<<i, j>> \in similar /\ <<j, k>> \in similar) => <<i, k>> \in similar

\* the two calls differ at most in the threshold: the first has the lower one
ClaimThresholdsOrdered ==
    /\ ClaimThreshold(advOptions[1]) <= ClaimThreshold(advOther[1])
    /\ ClaimWordCount(advOptions[1]) = ClaimWordCount(advOther[1])
    /\ ClaimPreferredNames(advOptions[1]) = ClaimPreferredNames(advOther[1])

\* C25 as stated: for thresholds low <= high, deduplicateArticlesAdvanced with
\* the threshold low returns no more articles than with the threshold high,
\* the other options being equal.
C25_LowerThresholdNoMore ==
    (advUnique # <<>> /\ advUniqueOther # <<>> /\ ClaimThresholdsOrdered) =>
        Len(advUnique[1]) <= Len(advUniqueOther[1])

\* C25 amended: for thresholds low <= high and a batch on which being similar
\* at the threshold low is transitive, deduplicateArticlesAdvanced with the
\* threshold low returns no more articles than with the threshold high, the
\* other options being equal.
C25_LowerThresholdNoMoreWhenTransitive ==
    (advUnique # <<>> /\ advUniqueOther # <<>> /\ ClaimThresholdsOrdered) =>
        \/ Len(advUnique[1]) <= Len(advUniqueOther[1])
        \/ ~ClaimTransitive(articles, ClaimThreshold(advOptions[1]),
                            ClaimWordCount(advOptions[1]))

\* three articles, similar to one another at the lower threshold, of which
\* the lower threshold leaves one and the higher threshold more
C25_Witness ==
    /\ advUnique # <<>>
    /\ advUniqueOther # <<>>
    /\ ClaimThresholdsOrdered
    /\ ClaimThreshold(advOptions[1]) < ClaimThreshold(advOther[1])
    /\ Len(articles) = 3
    /\ Len(advUnique[1]) = 1
    /\ Len(advUniqueOther[1]) > 1
    /\ ClaimTransitive(articles, ClaimThreshold(advOptions[1]),
                       ClaimWordCount(advOptions[1]))

\* the two calls differ at most in the word count: the first has the lower one
ClaimWordCountsOrdered ==
    /\ ClaimWordCount(advOptions[1]) <= ClaimWordCount(advOther[1])
    /\ ClaimThreshold(advOptions[1]) = ClaimThreshold(advOther[1])
    /\ ClaimPreferredNames(advOptions[1]) = ClaimPreferredNames(advOther[1])

\* the titles of the batch have the same first n words
ClaimSameFirstWords(batch, n) ==
    \A i, j \in 1..Len(batch) :
        ClaimFirstWords(batch[i].title, n) = ClaimFirstWords(batch[j].title, n)

-----------------------------------------------------------------------------
(* C27: the advanced variant under its default options *)

\* C27: with the default options (threshold 0.8, eight words, no preferred
\* sources) deduplicateArticlesAdvanced returns the same articles in the same
\* order as deduplicateArticles.
C27_DefaultsAgree ==
    (/\ unique # <<>>
     /\ advUnique # <<>>
     /\ ClaimThreshold(advOptions[1]) = 80
     /\ ClaimWordCount(advOptions[1]) = ClaimMaxWords
     /\ ClaimPreferredNames(advOptions[1]) = <<>>) =>
        advUnique[1] = unique[1]

-----------------------------------------------------------------------------
(* C28: the result of deduplicateArticles, checked under SpecAdvanced, whose   *)
(* pool has titles that are duplicates by each of the three criteria         *)

\* C28: the list deduplicateArticles returns never holds two articles that
\* are duplicates of each other: between any two of its articles none of the
\* three title criteria holds.
C28_NoDuplicatesLeft ==
    unique # <<>> => NoDuplicatePair(unique[1])

\* two articles are returned of a batch of four; the two others have titles
\* of their own and are duplicates of the first one returned, and the two
\* returned are not duplicates of each other
C28_Witness ==
    /\ unique # <<>>
    /\ Len(articles) = 4
    /\ Len(unique[1]) = 2
    /\ ~ClaimDuplicates(unique[1][1].title, unique[1][2].title)
    /\ \E i, j \in 1..4 :
           /\ articles[i].title \notin {unique[1][1].title, unique[1][2].title}
           /\ articles[j].title \notin {unique[1][1].title, unique[1][2].title}
           /\ articles[i].title # articles[j].title
           /\ ClaimDuplicates(articles[i].title, unique[1][1].title)
           /\ ClaimDuplicates(articles[j].title, unique[1][1].title)
           /\ ~ClaimDuplicates(articles[i].title, articles[j].title)


-----------------------------------------------------------------------------
(* C29: the highest total, checked under SpecScore *)

\* the highest values of the source authority, recency, image quality and
\* title quality sub-scores
ClaimMaxAuthority == 100

ClaimMaxRecency == 100

ClaimMaxImageQuality == 50

ClaimMaxTitleQuality == 50

-----------------------------------------------------------------------------
(* C23: the request counter, checked under SpecTracker *)

\* the daily limit the claims speak of
ClaimDailyLimit == 500

\* C23: within one calendar day the count is the number of trackAPIRequest
\* calls made since the last resetUsage (or since the process started):
\* each trackAPIRequest adds exactly 1 to the count and one entry to the
\* history, also beyond 500; getCurrentUsage, canMakeRequest and
\* getRequestHistory leave the count and the history as they are;
\* resetUsage sets the count to 0 and empties the history; and the remaining
\* number reported is 500 minus the count, negative beyond the limit.
C23_CountIsCallsSinceReset ==
    [][opsDone' = opsDone + 1 =>
          LET before  == currentUsage[1]
              after   == currentUsage'[1]
              name    == reported'[1].op
              value   == reported'[1].value
              sameDay == before.date = today
          IN  /\ after.date = today =>
                     /\ after.count = callsToday'
                     /\ Len(after.requests) = callsToday'
              /\ (name = "trackAPIRequest" /\ sameDay) =>
                     /\ after.count = before.count + 1
                     /\ Len(after.requests) = Len(before.requests) + 1
                     /\ SubSeq(after.requests, 1, Len(before.requests)) = before.requests
                     /\ value.count = after.count
                     /\ value.remaining = ClaimDailyLimit - after.count
              /\ (name = "getCurrentUsage" /\ sameDay) =>
                     /\ after = before
                     /\ value.count = before.count
                     /\ value.remaining = ClaimDailyLimit - before.count
              /\ (name = "canMakeRequest" /\ sameDay) =>
                     /\ after = before
                     /\ value = (before.count < ClaimDailyLimit)
              /\ (name = "getRequestHistory" /\ sameDay) =>
                     /\ after = before
                     /\ value = before.requests
              /\ name = "resetUsage" =>
                     /\ after.count = 0
                     /\ after.requests = <<>>
                     /\ callsToday' = 0
    ]_vars

\* two requests tracked beyond the limit on the day the process started: the
\* count is 502 and the remaining number reported is -2
C23_Witness ==
    /\ reported # <<>>
    /\ reported[1].op = "trackAPIRequest"
    /\ today = 0
    /\ callsToday = ClaimDailyLimit + 2
    /\ currentUsage[1].count = ClaimDailyLimit + 2
    /\ reported[1].value.remaining = 0 - 2
-----------------------------------------------------------------------------
(* C22: when the provider answers with a status that is not OK, or the      *)
(* request itself fails, fetchArticles rejects with an error, for a failed  *)
(* request with the error of that failure, instead of resolving with a list *)
(* of articles.                                                             *)

\* the answer of the call that settled last was an error status or a failure
ClaimAnsweredWithError ==
    /\ reported # <<>>
    /\ reported[1].response # <<>>
    /\ \/ reported[1].response[1].failure # <<>>
       \/ ~reported[1].response[1].ok

\* C22: a call whose request failed or was answered with a status that is
\* not OK is rejected, with the error of the failure when the request failed
C22_ErrorsReject ==
    ClaimAnsweredWithError =>
        /\ reported[1].result.kind = "rejected"
        /\ reported[1].response[1].failure # <<>> =>
               reported[1].result.error = reported[1].response[1].failure[1]

-----------------------------------------------------------------------------
(* C30: no sequence or interleaving of overlapping calls of fetchArticles   *)
(* drives the tracked count of the day above 500.  A call tracks and issues *)
(* a request only if the count was below 500 at its check, with no other    *)
(* call's increment between the check and its own increment; a call that    *)
(* finds the count at 500 returns an empty list, tracks nothing and issues  *)
(* no request.                                                              *)

\* the count of the day as a check made now would read it
ClaimCountNow == getCurrentUsage(currentUsage[1], today).result.count

\* the calls that take their first step
ClaimStarting == {c \in 1..MaxCalls : calls[c].pc = "idle" /\ calls'[c].pc # "idle"}

\* C30: the count never passes 500; it changes, and a request is issued,
\* only in the first step of a call that read a count below 500, and then
\* by one each; a call that reads 500 settles at once with an empty list and
\* leaves the count and the requests as they were
C30_NeverAboveLimit ==
    [][/\ currentUsage'[1].count <= ClaimDailyLimit
       /\ ClaimStarting = {} =>
              /\ upstream' = upstream
              /\ currentUsage' = currentUsage
       /\ ClaimStarting # {} =>
              /\ upstream' \in {upstream, upstream + 1}
              /\ upstream' = upstream + 1 <=> currentUsage'[1].count = ClaimCountNow + 1
              /\ upstream' = upstream <=> currentUsage'[1].count = ClaimCountNow
              /\ upstream' = upstream + 1 => ClaimCountNow < ClaimDailyLimit
              /\ (env[1].NEWS_API_KEY # <<>> /\ ClaimCountNow >= ClaimDailyLimit) =>
                     /\ upstream' = upstream
                     /\ reported' # <<>>
                     /\ reported'[1].call \in ClaimStarting
                     /\ reported'[1].result = resolved(<<>>)]_vars

\* one call tracked the 500th request of the day and waits for its answer
\* while another call, finding the count at 500, returned an empty list
C30_Witness ==
    /\ env # <<>>
    /\ env[1] = TestEnvironment
    /\ currentUsage[1].count = ClaimDailyLimit
    /\ currentUsage[1].date = today
    /\ upstream = 1
    /\ \E c \in 1..MaxCalls : calls[c].pc = "awaiting"
    /\ reported # <<>>
    /\ reported[1].response = <<>>
    /\ reported[1].result = resolved(<<>>)

-----------------------------------------------------------------------------
(* C21: invocations of the pipeline are independent and safe to run in      *)
(* parallel: under any interleaving of two invocations on batches A and B   *)
(* each returns exactly what it would return if run alone on its batch, and *)
(* no invocation reads or writes a counter, cache or other state shared     *)
(* with another invocation.                                                 *)

\* what processArticles returns for each input when it runs alone
ClaimAlone ==
    {[input |-> input, result |-> processArticles(input[1], input[2], FetchClock)] :
        input \in ParallelInputs}

\* invocation k of the list returned what a run alone on its batch returns
ClaimReturnsAsAlone(invs, k) ==
    \E alone \in ClaimAlone :
        /\ alone.input = <<invs[k].rawArticles, invs[k].options>>
        /\ alone.result = invs[k].articles

=============================================================================
